---- MODULE Spec2Model ----
(***************************************************************************)
(* A model of the MCP orchestrator's reconciliation engine:                *)
(*   ConfigManager   (desired state, src/orchestrator/config_manager.py)   *)
(*   ComposeManager  (docker compose runtime, compose_manager.py)          *)
(*   ContainerManager(docker runtime, container_manager.py)                *)
(*   ALBManager      (target groups and listener rules, alb_manager.py)    *)
(*   reconciliation_loop (main.py) and the console routes (dashboard).     *)
(*                                                                         *)
(* Every handler is one action.  Its body is a function from the world     *)
(* before the call to the world after it, written as the code is written:  *)
(* each Python method is an operator that takes the world w and returns    *)
(* [w, val, raised].  Remote calls fail according to a fault plan f drawn  *)
(* by the action: the call at f.site made for service f.id fails on the    *)
(* first f.k attempts of every invocation that reaches it.                 *)
(***************************************************************************)
EXTENDS Integers, Sequences, FiniteSets, TLC

VARIABLES
    phase,             \* "ready", or "reporting": a handler holds its summaries
    wiring,            \* which runtime manager the ALBManager was constructed with
    file,              \* the desired-state file on disk: id -> absent/enabled/disabled
    compose_data,      \* ConfigManager.compose_data, the desired state in memory
    containers,        \* the container runtime: id -> [st, port]
    port_allocations,  \* the wired manager's port_allocations cache (0 = no entry)
    aws_tgs,           \* the load balancer's target groups
    aws_rules,         \* the listener's non-default rules
    target_groups,     \* ALBManager.target_groups cache: id -> ARN (0 = no entry)
    service_results,   \* the container sync's summary, if the last handler was a pass
    alb_results,       \* sync_alb's summary, if the last handler was a pass
    log,               \* the last handler's calls to the load balancer, and its markers
    fault,             \* the fault the last handler ran into (NoFault if none)
    clean,             \* consecutive fault-free loop passes over the same file (0..2)
    pristine,          \* nothing but fault-free loop passes since an empty start
    env,               \* what is out for the whole run, as a fault plan
    threads,           \* what each thread of a concurrent run is at (see SpecRace)
    interval,          \* the interval reconciliation_loop was called with
    shutdown_requested,\* main.shutdown_requested
    slept,             \* one-second sleeps done since the last pass
    passes,            \* passes the loop has run
    exit_code,         \* the code of sys.exit, NoExit while the process runs
    probe              \* the function probed on its own: its arguments, its results

\* the process and the probe, which the handlers leave alone
aside == <<env, threads, interval, shutdown_requested, slept, passes, exit_code, probe>>

vars == <<phase, wiring, file, compose_data, containers, port_allocations, aws_tgs,
          aws_rules, target_groups, service_results, alb_results, log, fault,
          clean, pristine, aside>>

(***************************************************************************)
(* Bounds of the model.                                                    *)
(***************************************************************************)
\* Number of host ports in the configured range.
PortCount == 2
\* Largest priority an operator gives to a rule of their own on the listener.
MaxForeignPriority == 4

\* the longest service id derived a name for, past the cut of the name
MaxIdLen == 27

\* how often a name is derived for one id
MaxCalls == 2

\* the longest interval between passes, in seconds
MaxInterval == 2

\* the passes counted; later ones count as the last
MaxPasses == 2

(***************************************************************************)
(* Program constants.                                                      *)
(***************************************************************************)
port_range_start == 8000
port_range_end == port_range_start + PortCount - 1
\* stop_after_attempt(3)
stop_after_attempt == 3
\* the fallback of _get_next_available_priority
FallbackPriority == 1000
\* the length cap of a target group name
NameCap == 32
\* the priority of the listener's default rule ("default" in the API)
DefaultPriority == 0

(***************************************************************************)
(* Service ids are strings, modelled as sequences of characters.           *)
(***************************************************************************)
IdA == <<"a">>
IdB == <<"b">>
Ids == {IdA, IdB}
\* the order in which the desired-state file lists the services
Order == <<IdA, IdB>>
\* two ids a compose file can hold as well, in the order it lists them
TwinA == <<"x", ".", "y">>
TwinB == <<"x", "-", "y">>
Twins == {TwinA, TwinB}
TwinOrder == <<TwinA, TwinB>>
\* the services a mapping of the model is about, in file order
ServicesOf(mapping) ==
    SelectSeq(Order \o TwinOrder, LAMBDA i : i \in DOMAIN mapping)
\* the pseudo id of an error outside any service ("General error: ...")
GENERAL == <<"*">>

\* the characters str.isalnum() accepts, among those of the model
AlnumChars == {"a", "b", "c", "d", "e", "g", "h", "i", "l", "m", "n", "o", "p",
               "r", "s", "t", "v", "x", "y", "Z", "0", "1", "7"}

\* x = value; rest(x): the value is computed once
Bind(value, rest(_)) == rest(value)

Max(S) == CHOOSE x \in S : \A y \in S : y <= x
Min(S) == CHOOSE x \in S : \A y \in S : x <= y
Take(s, n) == IF Len(s) <= n THEN s ELSE SubSeq(s, 1, n)
Has(s, x) == \E i \in 1..Len(s) : s[i] = x

\* str.isalnum() on one character
isalnum(c) == c \in AlnumChars

\* _get_target_group_name without the [:32] slice
_uncut_target_group_name(server_id) ==
    Bind([i \in 1..Len(server_id) |->
            IF isalnum(server_id[i]) THEN server_id[i] ELSE "-"], LAMBDA clean_id :
       <<"t", "g", "-", "m", "c", "p", "-">> \o clean_id)

_get_target_group_name(server_id) ==
    Bind([i \in 1..Len(server_id) |->
                        IF isalnum(server_id[i]) THEN server_id[i] ELSE "-"], LAMBDA clean_id :
       Take(<<"t", "g", "-", "m", "c", "p", "-">> \o clean_id, NameCap))

_get_path_pattern(server_id) == <<"/", "m", "c", "p", "/">> \o server_id \o <<"/", "*">>

_get_container_name(server_id) == <<"m", "c", "p", "-">> \o server_id

(***************************************************************************)
(* Faults.                                                                 *)
(***************************************************************************)
NoFault == [site |-> "none", id |-> GENERAL, k |-> 0]

\* remote calls of the decorated (@retry) operations
RetriedSites == {"describe_target_groups", "create_target_group", "add_tags",
                 "register_targets", "describe_rules", "describe_rules_priority",
                 "create_rule", "modify_rule", "containers.get", "containers.run"}
\* remote calls ComposeManager makes for one service
ComposeSites == {"compose_ps", "compose_up", "compose_stop", "compose_restart",
                 "docker_inspect"}
\* remote calls ContainerManager makes for one service
DockerSites == {"containers.get", "containers.run", "container.stop",
                "container.restart"}
\* remote calls ALBManager makes for one service
SetupSites == {"describe_target_groups", "create_target_group", "add_tags",
               "register_targets", "describe_rules", "describe_rules_priority",
               "create_rule", "modify_rule"}
TeardownSites == {"describe_target_groups", "describe_rules", "delete_rule",
                  "delete_target_group"}
\* remote calls made once per pass
SweepSites == {"describe_all_target_groups", "describe_tags"}

\* the remote calls made to the container runtime
RuntimeSites == ComposeSites \cup DockerSites \cup {"compose_ps_all", "containers.list"}

\* the calls that cannot succeed while something is out for the whole run:
\* no docker compose command, the docker daemon or the elbv2 endpoint out of
\* reach, the setting aws.listener_arn or aws.vpc_id empty (_get_listener_arn
\* and _get_vpc_id raise where the setting is read)
Out(what) ==
    CASE what = "compose" -> {"compose_version"} \cup RuntimeSites
      [] what = "docker" -> RuntimeSites
      [] what = "elbv2" -> SetupSites \cup TeardownSites \cup SweepSites
      [] what = "listener_arn" ->
            {"describe_rules", "describe_rules_priority", "create_rule"}
      [] what = "vpc_id" -> {"create_target_group"}
      [] OTHER -> {}

\* a fault plan: the remote call at site made for id fails on the first k
\* attempts of every invocation that reaches it.  FaultsAt: no failure, or
\* one that lasts for the whole invocation.
FaultsAt(sites, ids) ==
    {NoFault} \cup [site : sites, id : ids, k : {stop_after_attempt}]
\* the plans with a failure that ends after one or two attempts as well
TransientFaults(sites, ids) ==
    {NoFault} \cup [site : sites, id : ids, k : 1..stop_after_attempt]

\* does the remote call at site, made for id on attempt n, fail under plan f
Fails(f, site, id, n) ==
    /\ n <= f.k
    /\ \/ f.site = site /\ f.id = id
       \/ site \in Out(f.site)

(***************************************************************************)
(* The world a handler acts on, and what a call returns.                   *)
(***************************************************************************)
World == [disk |-> file,
          cont |-> containers, pa |-> port_allocations, cd |-> compose_data,
          tgs |-> aws_tgs, rules |-> aws_rules, cache |-> target_groups,
          log |-> <<>>]

Ret(w, val) == [w |-> w, val |-> val, raised |-> FALSE]
Raise(w) == [w |-> w, val |-> 0, raised |-> TRUE]

Event(op, id, prio, held, ok) ==
    [op |-> op, id |-> id, prio |-> prio, held |-> held, ok |-> ok]
Logged(w, e) == [w EXCEPT !.log = Append(@, e)]
\* a remote call that failed
Failed(w, site, id) == Logged(w, Event(site, id, 0, {}, FALSE))
\* a remote call that was carried out
Called(w, site, id) == Logged(w, Event(site, id, 0, {}, TRUE))
\* a marker: the chain of a service, or a phase of a pass, was entered
Marked(w, what, id) == Logged(w, Event(what, id, 0, {}, TRUE))

(***************************************************************************)
(* tenacity's @retry(stop=stop_after_attempt(3)): the body is run again    *)
(* only when it raised; after the last attempt the error is re-raised.     *)
(***************************************************************************)
retry(Body(_, _), w) ==
    Bind(Body(w, 1), LAMBDA r1 :
       IF ~r1.raised THEN r1
        ELSE Bind(Body(r1.w, 2), LAMBDA r2 :
                IF ~r2.raised THEN r2 ELSE Body(r2.w, stop_after_attempt)))

(***************************************************************************)
(* The load balancer (the elbv2 API as the code uses it).                  *)
(*   target group: [arn, name, managed, service, targets]                  *)
(*     managed: carries the tag ManagedBy=mcp-orchestrator                 *)
(*     service: the value of the tag MCPService (<<>> when untagged)       *)
(*   rule: [arn, prio, path, tg], a path-pattern rule forwarding to tg     *)
(***************************************************************************)
NoService == <<>>
NoRule == [arn |-> 0, prio |-> 0, path |-> <<>>, tg |-> 0]

\* the position of a service in the file
Index(id) == CHOOSE i \in 1..Len(Order \o TwinOrder) : (Order \o TwinOrder)[i] = id

\* ARNs are opaque: a new resource gets an ARN nothing refers to any more,
\* here the first such one from the position of its service on.
FirstFree(used, from) == Min((from..(from + Cardinality(used))) \ used)
UsedTgArns(w) == {t.arn : t \in w.tgs} \cup {w.cache[i] : i \in DOMAIN w.cache}
                 \cup {r.tg : r \in w.rules}
FreshTgArn(w, server_id) == FirstFree(UsedTgArns(w), Index(server_id))
FreshRuleArn(w, server_id) == FirstFree({r.arn : r \in w.rules}, Index(server_id))

\* describe_rules lists the rules by priority
FirstRule(S) == CHOOSE r \in S : \A q \in S : r.prio <= q.prio

\* ContainerManager.get_port_for_server
ContainerManager_get_port_for_server(w, server_id) == Ret(w, w.pa[server_id])

\* ComposeManager._update_port_for_server: docker inspect of the service's
\* container; a port is printed only for a running container.
_update_port_for_server(w, f, service_id) ==
    IF Fails(f, "docker_inspect", service_id, 1)
    THEN Ret(Failed(w, "docker_inspect", service_id), 0)
    ELSE Bind(Called(w, "docker_inspect", service_id), LAMBDA w1 :
            IF w1.cont[service_id].st = "running"
             THEN Ret([w1 EXCEPT !.pa[service_id] = w1.cont[service_id].port],
                      w1.cont[service_id].port)
             ELSE Ret(w1, 0))

ComposeManager_get_port_for_server(w, f, server_id) ==
    IF w.pa[server_id] # 0 THEN Ret(w, w.pa[server_id])
    ELSE _update_port_for_server(w, f, server_id)

\* self.container_manager.get_port_for_server, by the manager that is wired
get_port_for_server(w, f, server_id) ==
    IF wiring = "compose" THEN ComposeManager_get_port_for_server(w, f, server_id)
    ELSE ContainerManager_get_port_for_server(w, server_id)

\* a variant of the lookup below: it never finds the group
_target_group_missed(w, f, server_id, target_group_name, n) ==
    Ret(Called(w, "describe_target_groups", server_id), 0)

_target_group_exists(w, f, server_id, target_group_name, n) ==
    IF Fails(f, "describe_target_groups", server_id, n)
    THEN Raise(Failed(w, "describe_target_groups", server_id))
    ELSE Bind({t \in w.tgs : t.name = target_group_name}, LAMBDA found :
            Ret(Called(w, "describe_target_groups", server_id),
                 IF found = {} THEN 0 ELSE Min({t.arn : t \in found})))

_rule_exists_for_path(w, f, server_id, path_pattern, n) ==
    IF Fails(f, "describe_rules", server_id, n)
    THEN Raise(Failed(w, "describe_rules", server_id))
    ELSE Bind({r \in w.rules : r.path = path_pattern}, LAMBDA found :
            Ret(Called(w, "describe_rules", server_id),
                 IF found = {} THEN NoRule ELSE FirstRule(found)))

\* a variant of the scan below: the priority after the largest one
AfterLargest(priorities, i) == Max(priorities) + 1

\* for i in range(1, priorities[-1] + 2): if i not in priorities: return i
RECURSIVE FirstGap(_, _)
FirstGap(priorities, i) ==
    IF i \notin priorities THEN i ELSE FirstGap(priorities, i + 1)

\* the listing describe_rules returns: the default rule and the others
DescribeRules(w) == {[arn |-> 0, prio |-> DefaultPriority, path |-> <<>>, tg |-> 0]}
                    \cup w.rules

\* a variant of the allocation below: a failed enumeration is not caught
no_fallback_priority(w, f, server_id, n) ==
    IF Fails(f, "describe_rules_priority", server_id, n)
    THEN Raise(Failed(w, "describe_rules_priority", server_id))
    ELSE Bind({r.prio : r \in {q \in DescribeRules(w) :
                                              q.prio # DefaultPriority}}, LAMBDA priorities :
            Ret(Called(w, "describe_rules_priority", server_id),
                 IF priorities = {} THEN 1 ELSE FirstGap(priorities, 1)))

_get_next_available_priority(w, f, server_id, n) ==
    IF Fails(f, "describe_rules_priority", server_id, n)
    THEN Ret(Failed(w, "describe_rules_priority", server_id), FallbackPriority)
    ELSE Bind({r.prio : r \in {q \in DescribeRules(w) :
                                              q.prio # DefaultPriority}}, LAMBDA priorities :
            Ret(Called(w, "describe_rules_priority", server_id),
                 IF priorities = {} THEN 1 ELSE FirstGap(priorities, 1)))

create_target_group_body(w, f, server_id, n) ==
    Bind(_get_target_group_name(server_id), LAMBDA target_group_name :
    Bind(_target_group_exists(w, f, server_id, target_group_name, n), LAMBDA ex :
       IF ex.raised THEN Ret(ex.w, 0)
        ELSE IF ex.val # 0
        THEN Ret([ex.w EXCEPT !.cache[server_id] = ex.val], ex.val)
        ELSE
        Bind(get_port_for_server(ex.w, f, server_id), LAMBDA pr :
           IF pr.val = 0 THEN Ret(pr.w, 0)
            ELSE IF Fails(f, "create_target_group", server_id, n)
            THEN Ret(Failed(pr.w, "create_target_group", server_id), 0)
            ELSE
            Bind(FreshTgArn(pr.w, server_id), LAMBDA arn :
            Bind([arn |-> arn, name |-> target_group_name, managed |-> FALSE,
                       service |-> NoService, targets |-> {}], LAMBDA tg :
            Bind(Called([pr.w EXCEPT !.tgs = @ \cup {tg},
                                          !.cache[server_id] = arn],
                             "create_target_group", server_id), LAMBDA w1 :
               IF Fails(f, "add_tags", server_id, n)
                THEN Ret(Failed(w1, "add_tags", server_id), 0)
                ELSE Ret(Called([w1 EXCEPT !.tgs =
                                    (@ \ {tg}) \cup {[tg EXCEPT !.managed = TRUE,
                                                        !.service = server_id]}],
                                "add_tags", server_id),
                         arn)))))))

create_target_group(w, f, server_id) ==
    retry(LAMBDA x, n : create_target_group_body(x, f, server_id, n), w)

register_target_body(w, f, server_id, n) ==
    Bind(IF w.cache[server_id] # 0 THEN Ret(w, w.cache[server_id])
              ELSE create_target_group(w, f, server_id), LAMBDA tr :
       IF tr.raised THEN Ret(tr.w, FALSE)
        ELSE IF tr.val = 0 THEN Ret(tr.w, FALSE)
        ELSE
        Bind(get_port_for_server(tr.w, f, server_id), LAMBDA pr :
           IF pr.val = 0 THEN Ret(pr.w, FALSE)
            ELSE IF Fails(f, "register_targets", server_id, n)
                    \/ ~\E t \in pr.w.tgs : t.arn = tr.val
            THEN Ret(Failed(pr.w, "register_targets", server_id), FALSE)
            ELSE Ret(Called([pr.w EXCEPT !.tgs =
                               {IF t.arn = tr.val
                                THEN [t EXCEPT !.targets = @ \cup {pr.val}]
                                ELSE t : t \in @}],
                            "register_targets", server_id),
                     TRUE)))

register_target(w, f, server_id) ==
    retry(LAMBDA x, n : register_target_body(x, f, server_id, n), w)

\* create_rule with the next available priority, for a path no rule has
new_rule(w, f, server_id, n, path_pattern, target_group_arn) ==
    Bind(_get_next_available_priority(w, f, server_id, n), LAMBDA np :
    Bind({r.prio : r \in np.w.rules}, LAMBDA held :
    Bind(Logged(np.w, Event("create_rule", server_id, np.val, held,
                                 ~Fails(f, "create_rule", server_id, n)
                                 /\ np.val \notin held)), LAMBDA w1 :
       \* the provider refuses a priority that is in use
        IF Fails(f, "create_rule", server_id, n) \/ np.val \in held
        THEN Ret(w1, 0)
        ELSE Bind(FreshRuleArn(w1, server_id), LAMBDA arn :
                Ret([w1 EXCEPT !.rules = @ \cup
                         {[arn |-> arn, prio |-> np.val,
                           path |-> path_pattern,
                           tg |-> target_group_arn]}],
                     arn)))))

\* a variant of the branch below: the rule is modified without a look at
\* its actions
always_modify_rule(w, f, server_id, n, existing_rule, target_group_arn) ==
    IF Fails(f, "modify_rule", server_id, n)
    THEN Ret(Failed(w, "modify_rule", server_id), 0)
    ELSE Ret(Called([w EXCEPT !.rules =
                       (@ \ {existing_rule}) \cup
                       {[existing_rule EXCEPT !.tg = target_group_arn]}],
                    "modify_rule", server_id),
             existing_rule.arn)

\* a variant of the branch below: a rule that forwards elsewhere is left
\* and a new one created
add_rule_beside(w, f, server_id, n, existing_rule, target_group_arn) ==
    IF existing_rule.tg = target_group_arn
    THEN Ret(w, existing_rule.arn)
    ELSE new_rule(w, f, server_id, n, existing_rule.path, target_group_arn)

\* if existing_rule: return it if one of its forward actions has the
\* target group, else modify_rule
existing_rule_branch(w, f, server_id, n, existing_rule, target_group_arn) ==
    IF existing_rule.tg = target_group_arn
    THEN Ret(w, existing_rule.arn)
    ELSE IF Fails(f, "modify_rule", server_id, n)
         THEN Ret(Failed(w, "modify_rule", server_id), 0)
         ELSE Ret(Called([w EXCEPT !.rules =
                            (@ \ {existing_rule}) \cup
                            {[existing_rule EXCEPT !.tg = target_group_arn]}],
                         "modify_rule", server_id),
                  existing_rule.arn)

create_listener_rule_body(w, f, server_id, n) ==
    Bind(IF w.cache[server_id] # 0 THEN Ret(w, w.cache[server_id])
              ELSE create_target_group(w, f, server_id), LAMBDA tr :
       IF tr.raised \/ tr.val = 0 THEN Ret(tr.w, 0)
        ELSE
        Bind(tr.val, LAMBDA target_group_arn :
        Bind(_get_path_pattern(server_id), LAMBDA path_pattern :
        Bind(_rule_exists_for_path(tr.w, f, server_id, path_pattern, n), LAMBDA er :
        Bind(er.val, LAMBDA existing_rule :
           IF er.raised THEN Ret(er.w, 0)
            ELSE IF existing_rule # NoRule
            THEN existing_rule_branch(er.w, f, server_id, n, existing_rule,
                                      target_group_arn)
            ELSE new_rule(er.w, f, server_id, n, path_pattern,
                          target_group_arn))))))

create_listener_rule(w, f, server_id) ==
    retry(LAMBDA x, n : create_listener_rule_body(x, f, server_id, n), w)

delete_rule_for_server(w, f, server_id) ==
    Bind(_get_path_pattern(server_id), LAMBDA path_pattern :
    Bind(_rule_exists_for_path(w, f, server_id, path_pattern, 1), LAMBDA er :
       IF er.raised THEN Ret(er.w, FALSE)
        ELSE IF er.val = NoRule THEN Ret(er.w, TRUE)
        ELSE IF Fails(f, "delete_rule", server_id, 1)
        THEN Ret(Failed(er.w, "delete_rule", server_id), FALSE)
        ELSE Ret(Called([er.w EXCEPT !.rules = @ \ {er.val}],
                        "delete_rule", server_id),
                 TRUE)))

delete_target_group_for_server(w, f, server_id) ==
    Bind(_get_target_group_name(server_id), LAMBDA target_group_name :
    Bind(_target_group_exists(w, f, server_id, target_group_name, 1), LAMBDA ex :
       IF ex.raised THEN Ret(ex.w, FALSE)
        ELSE IF ex.val = 0 THEN Ret(ex.w, TRUE)
        \* the provider refuses to delete a target group a rule forwards to
        ELSE IF Fails(f, "delete_target_group", server_id, 1)
                \/ \E r \in ex.w.rules : r.tg = ex.val
        THEN Ret(Failed(ex.w, "delete_target_group", server_id), FALSE)
        ELSE Ret(Called([ex.w EXCEPT !.tgs = {t \in @ : t.arn # ex.val},
                                     !.cache[server_id] = 0],
                        "delete_target_group", server_id),
                 TRUE)))

\* val: [target_group_created, target_registered, rule_created, errors]
setup_alb_for_server(w, f, server_id) ==
    Bind(create_target_group(w, f, server_id), LAMBDA tr :
       IF tr.raised
        THEN Ret(tr.w, [target_group_created |-> FALSE, target_registered |-> FALSE,
                        rule_created |-> FALSE, errors |-> 1])
        ELSE IF tr.val = 0
        THEN Ret(tr.w, [target_group_created |-> FALSE, target_registered |-> FALSE,
                        rule_created |-> FALSE, errors |-> 1])
        ELSE
        Bind(register_target(tr.w, f, server_id), LAMBDA rr :
           IF rr.raised \/ ~rr.val
            THEN Ret(rr.w, [target_group_created |-> TRUE,
                            target_registered |-> FALSE,
                            rule_created |-> FALSE, errors |-> 1])
            ELSE
            Bind(create_listener_rule(rr.w, f, server_id), LAMBDA lr :
               IF lr.raised \/ lr.val = 0
                THEN Ret(lr.w, [target_group_created |-> TRUE,
                                target_registered |-> TRUE,
                                rule_created |-> FALSE, errors |-> 1])
                ELSE Ret(lr.w, [target_group_created |-> TRUE,
                                target_registered |-> TRUE,
                                rule_created |-> TRUE, errors |-> 0]))))

\* a variant of the teardown below: the target group first, then the rule
cleanup_target_group_first(w, f, server_id) ==
    Bind(delete_target_group_for_server(w, f, server_id), LAMBDA dt :
    Bind(delete_rule_for_server(dt.w, f, server_id), LAMBDA dr :
       Ret(dr.w, [rule_deleted |-> dr.val, target_group_deleted |-> dt.val,
                  errors |-> (IF dr.val THEN 0 ELSE 1) + (IF dt.val THEN 0 ELSE 1)])))

\* val: [rule_deleted, target_group_deleted, errors]
cleanup_alb_for_server(w, f, server_id) ==
    Bind(delete_rule_for_server(w, f, server_id), LAMBDA dr :
    Bind(delete_target_group_for_server(dr.w, f, server_id), LAMBDA dt :
       Ret(dt.w, [rule_deleted |-> dr.val, target_group_deleted |-> dt.val,
                   errors |-> (IF dr.val THEN 0 ELSE 1) + (IF dt.val THEN 0 ELSE 1)])))

(***************************************************************************)
(* ConfigManager.                                                          *)
(***************************************************************************)
\* ConfigManager.get_mcp_servers: the services of compose_data, in file
\* order; the disabled flag of id is cd[id] = "disabled".
get_mcp_servers(cd) == SelectSeq(ServicesOf(cd), LAMBDA i : cd[i] # "absent")
IsDisabled(cd, id) == cd[id] = "disabled"

\* a file that does not parse as YAML (or cannot be read)
Garbled == [i \in Ids |-> "garbled"]
\* {"version": "3", "services": {}}
NoServices == [i \in Ids |-> "absent"]

\* ConfigManager.load_compose_data: read the file again; when that fails
\* compose_data becomes the empty configuration
load_compose_data(w) ==
    IF w.disk = Garbled
    THEN [Failed(w, "load_config", GENERAL) EXCEPT !.cd = NoServices]
    ELSE [w EXCEPT !.cd = w.disk]

\* The entry of the flat desired-state schema that ContainerManager reads
\* ({command, args, env, disabled}).
FlatEntry(cd, id) ==
    [command |-> <<"d", "o", "c", "k", "e", "r">>,
     args |-> << <<"r", "u", "n">>, <<"-", "i">>, <<"-", "-", "r", "m">>,
                 <<"i", "m", "g">> >>,
     disabled |-> IsDisabled(cd, id)]

(***************************************************************************)
(* ComposeManager.                                                         *)
(***************************************************************************)
\* the host port the compose file publishes for the service
ComposePort(id) == port_range_start + Index(id) - 1

_service_exists(w, f, service_id) ==
    IF Fails(f, "compose_ps", service_id, 1)
    THEN Ret(Failed(w, "compose_ps", service_id), FALSE)
    ELSE Ret(Called(w, "compose_ps", service_id), w.cont[service_id].st = "running")

start_service(w, f, service_id) ==
    Bind(load_compose_data(w), LAMBDA w1 :
       IF w1.cd[service_id] = "absent" THEN Ret(w1, FALSE)
        ELSE IF Fails(f, "compose_up", service_id, 1)
        THEN Ret(Failed(w1, "compose_up", service_id), FALSE)
        ELSE Bind(Called([w1 EXCEPT !.cont[service_id] =
                                  [st |-> "running", port |-> ComposePort(service_id)]],
                              "compose_up", service_id), LAMBDA w2 :
                Ret(_update_port_for_server(w2, f, service_id).w, TRUE)))

stop_service(w, f, service_id) ==
    IF Fails(f, "compose_stop", service_id, 1)
    THEN Ret(Failed(w, "compose_stop", service_id), FALSE)
    ELSE Ret(Called([w EXCEPT !.cont[service_id].st =
                        IF @ = "running" THEN "stopped" ELSE @,
                              !.pa[service_id] = 0],
                    "compose_stop", service_id),
             TRUE)

restart_service(w, f, service_id) ==
    IF Fails(f, "compose_restart", service_id, 1)
    THEN Ret(Failed(w, "compose_restart", service_id), FALSE)
    ELSE Bind(Called([w EXCEPT !.cont[service_id].st =
                              IF @ = "none" THEN "none" ELSE "running"],
                          "compose_restart", service_id), LAMBDA w1 :
            Ret(_update_port_for_server(w1, f, service_id).w, TRUE))

_get_running_services(w, f) ==
    IF Fails(f, "compose_ps_all", GENERAL, 1)
    THEN Ret(Failed(w, "compose_ps_all", GENERAL), <<>>)
    ELSE Ret(Called(w, "compose_ps_all", GENERAL),
             SelectSeq(Order, LAMBDA i : w.cont[i].st = "running"))

NoResults == [created |-> <<>>, updated |-> <<>>, stopped |-> <<>>, errors |-> <<>>]

\* the body of the for loop of sync_services, for one service
sync_services_one(w, f, res, service_id, mcp_services) ==
    Bind(Marked(w, "service", service_id), LAMBDA w0 :
       IF IsDisabled(w0.cd, service_id)
        THEN Bind(_service_exists(w0, f, service_id), LAMBDA ex :
                IF ex.val
                 THEN Bind(stop_service(ex.w, f, service_id), LAMBDA sr :
                         [w |-> sr.w,
                           res |-> IF sr.val
                                   THEN [res EXCEPT !.stopped = Append(@, service_id)]
                                   ELSE res])
                 ELSE [w |-> ex.w, res |-> res])
        ELSE Bind(_service_exists(w0, f, service_id), LAMBDA ex :
                IF ~ex.val
                 THEN Bind(start_service(ex.w, f, service_id), LAMBDA sr :
                         [w |-> sr.w,
                           res |-> IF sr.val
                                   THEN [res EXCEPT !.created = Append(@, service_id)]
                                   ELSE res])
                 ELSE Bind(restart_service(ex.w, f, service_id), LAMBDA rr :
                         [w |-> rr.w,
                           res |-> IF rr.val
                                   THEN [res EXCEPT !.updated = Append(@, service_id)]
                                   ELSE res])))

RECURSIVE sync_services_loop(_, _, _, _, _)
sync_services_loop(w, f, res, mcp_services, i) ==
    IF i > Len(mcp_services) THEN [w |-> w, res |-> res]
    ELSE Bind(sync_services_one(w, f, res, mcp_services[i], mcp_services), LAMBDA one :
            sync_services_loop(one.w, f, one.res, mcp_services, i + 1))

\* "Clean up services not in config": the loop over the running services
RECURSIVE sync_services_sweep(_, _, _, _, _, _)
sync_services_sweep(w, f, res, mcp_services, running_services, i) ==
    IF i > Len(running_services) THEN [w |-> w, res |-> res]
    ELSE Bind(running_services[i], LAMBDA service_id :
            IF ~Has(mcp_services, service_id) /\ w.cd[service_id] # "absent"
             THEN Bind(stop_service(w, f, service_id), LAMBDA sr :
                     sync_services_sweep(
                          sr.w, f,
                          IF sr.val THEN [res EXCEPT !.stopped = Append(@, service_id)]
                          ELSE res,
                          mcp_services, running_services, i + 1))
             ELSE sync_services_sweep(w, f, res, mcp_services, running_services,
                                      i + 1))

\* ComposeManager.sync_services; val is the summary
sync_services(w, f) ==
    Bind(get_mcp_servers(w.cd), LAMBDA mcp_services :
    Bind(sync_services_loop(w, f, NoResults, mcp_services, 1), LAMBDA lp :
    Bind(load_compose_data(lp.w), LAMBDA w1 :
    Bind(_get_running_services(w1, f), LAMBDA rs :
    Bind(sync_services_sweep(rs.w, f, lp.res, mcp_services, rs.val, 1), LAMBDA sw :
       Ret(sw.w, sw.res))))))

(***************************************************************************)
(* ContainerManager.                                                       *)
(***************************************************************************)
NoContainer == [st |-> "none", port |-> 0]

_container_exists(w, f, server_id, n) ==
    IF Fails(f, "containers.get", server_id, n)
    THEN Ret(Failed(w, "containers.get", server_id), FALSE)
    ELSE Ret(Called(w, "containers.get", server_id), w.cont[server_id].st # "none")

\* s.connect_ex(('localhost', port)) = 0: something listens on the port
PortListening(w, port) ==
    \E i \in DOMAIN w.cont : w.cont[i].st = "running" /\ w.cont[i].port = port

\* a variant of the scan below: the allocated ports are not skipped
RECURSIVE scan_past_cache(_, _, _)
scan_past_cache(w, allocated_ports, port) ==
    IF port > port_range_end THEN 0
    ELSE IF ~PortListening(w, port) THEN port
    ELSE scan_past_cache(w, allocated_ports, port + 1)

RECURSIVE ScanPorts(_, _, _)
ScanPorts(w, allocated_ports, port) ==
    IF port > port_range_end THEN 0
    ELSE IF port \in allocated_ports THEN ScanPorts(w, allocated_ports, port + 1)
    ELSE IF ~PortListening(w, port) THEN port
    ELSE ScanPorts(w, allocated_ports, port + 1)

\* raises RuntimeError when the range holds no available port
_find_available_port(w) ==
    Bind({w.pa[i] : i \in DOMAIN w.pa} \ {0}, LAMBDA allocated_ports :
    Bind(ScanPorts(w, allocated_ports, port_range_start), LAMBDA port :
       IF port = 0 THEN Raise(w) ELSE Ret(w, port)))

StartsWith(s, prefix) ==
    Len(s) >= Len(prefix) /\ SubSeq(s, 1, Len(prefix)) = prefix

\* the index of the image in args, 0 when there is none
RECURSIVE FindImage(_, _)
FindImage(args, i) ==
    IF i > Len(args) THEN 0
    ELSE IF StartsWith(args[i], <<"-">>) THEN FindImage(args, i + 1)
    ELSE IF i > 1 /\ StartsWith(args[i - 1], <<"-">>)
            /\ ~StartsWith(args[i - 1], <<"-", "-">>)
    THEN FindImage(args, i + 1)
    ELSE i

\* val: the index of the image; raises ValueError on any other command
_parse_docker_command(w, config) ==
    IF config.command # <<"d", "o", "c", "k", "e", "r">> THEN Raise(w)
    ELSE IF ~Has(config.args, <<"r", "u", "n">>) THEN Raise(w)
    ELSE Bind(Min({i \in 1..Len(config.args) :
                                  config.args[i] = <<"r", "u", "n">>}), LAMBDA run_index :
         Bind(FindImage(config.args, run_index + 1), LAMBDA image_index :
            IF image_index = 0 THEN Raise(w) ELSE Ret(w, image_index)))

\* a variant of the body below: the entry's "disabled" is not looked at
create_though_disabled(w, f, server_id, config, n) ==
    Bind(_container_exists(w, f, server_id, n), LAMBDA ex :
       IF ex.val THEN Ret(ex.w, 1)
        ELSE
        Bind(_parse_docker_command(ex.w, config), LAMBDA pc :
        Bind(_find_available_port(ex.w), LAMBDA fp :
           IF pc.raised \/ fp.raised THEN Ret(ex.w, 0)
            ELSE
            Bind([ex.w EXCEPT !.pa[server_id] = fp.val], LAMBDA w1 :
                IF Fails(f, "containers.run", server_id, n)
                   \/ w1.cont[server_id].st # "none"
                THEN Ret(Failed(w1, "containers.run", server_id), 0)
                ELSE Ret(Called([w1 EXCEPT !.cont[server_id] =
                                    [st |-> "running", port |-> fp.val]],
                                "containers.run", server_id),
                         1)))))

\* val: 1 for a container id, 0 for None
create_container_body(w, f, server_id, config, n) ==
    IF config.disabled THEN Ret(w, 0)
    ELSE
    Bind(_container_exists(w, f, server_id, n), LAMBDA ex :
       IF ex.val THEN Ret(ex.w, 1)
        ELSE
        Bind(_parse_docker_command(ex.w, config), LAMBDA pc :
        Bind(_find_available_port(ex.w), LAMBDA fp :
           IF pc.raised \/ fp.raised THEN Ret(ex.w, 0)
            ELSE
            Bind([ex.w EXCEPT !.pa[server_id] = fp.val], LAMBDA w1 :
               \* the runtime refuses a name that is taken
                IF Fails(f, "containers.run", server_id, n)
                   \/ w1.cont[server_id].st # "none"
                THEN Ret(Failed(w1, "containers.run", server_id), 0)
                ELSE Ret(Called([w1 EXCEPT !.cont[server_id] =
                                    [st |-> "running", port |-> fp.val]],
                                "containers.run", server_id),
                         1)))))

create_container(w, f, server_id, config) ==
    retry(LAMBDA x, n : create_container_body(x, f, server_id, config, n), w)

stop_container(w, f, server_id) ==
    Bind(_container_exists(w, f, server_id, 1), LAMBDA ex :
       IF ~ex.val THEN Ret(ex.w, TRUE)
        ELSE IF Fails(f, "container.stop", server_id, 1)
        THEN Ret(Failed(ex.w, "container.stop", server_id), FALSE)
        ELSE Ret(Called([ex.w EXCEPT !.cont[server_id] = NoContainer,
                                     !.pa[server_id] = 0],
                        "container.stop", server_id),
                 TRUE))

restart_container(w, f, server_id) ==
    Bind(_container_exists(w, f, server_id, 1), LAMBDA ex :
       IF ~ex.val THEN Ret(ex.w, FALSE)
        \* a stopped container cannot start while its port is taken
        ELSE IF Fails(f, "container.restart", server_id, 1)
                \/ (ex.w.cont[server_id].st # "running"
                    /\ PortListening(ex.w, ex.w.cont[server_id].port))
        THEN Ret(Failed(ex.w, "container.restart", server_id), FALSE)
        ELSE Ret(Called([ex.w EXCEPT !.cont[server_id].st = "running"],
                        "container.restart", server_id),
                 TRUE))

\* val: [exists, running, host_port]
ContainerManager_get_container_info(w, f, server_id) ==
    Bind(_container_exists(w, f, server_id, 1), LAMBDA ex :
       IF ~ex.val
        THEN Ret(ex.w, [exists |-> FALSE, running |-> FALSE, host_port |-> 0])
        ELSE Ret(ex.w, [exists |-> TRUE,
                        running |-> ex.w.cont[server_id].st = "running",
                        host_port |-> ex.w.pa[server_id]]))

\* self.container_manager.get_container_info: ComposeManager defines no
\* such method, so the call raises AttributeError.
get_container_info(w, f, server_id) ==
    IF wiring = "compose" THEN Raise(Marked(w, "AttributeError", server_id))
    ELSE ContainerManager_get_container_info(w, f, server_id)

\* the body of the for loop of sync_containers, for one service
sync_containers_one(w, f, res, server_id) ==
    Bind(Marked(w, "service", server_id), LAMBDA w0 :
    Bind(FlatEntry(w0.cd, server_id), LAMBDA config :
    Bind(_container_exists(w0, f, server_id, 1), LAMBDA ex :
       IF config.disabled
        THEN IF ex.val
             THEN [w |-> stop_container(ex.w, f, server_id).w,
                   res |-> [res EXCEPT !.stopped = Append(@, server_id)]]
             ELSE [w |-> ex.w, res |-> res]
        ELSE IF ~ex.val
             THEN Bind(create_container(ex.w, f, server_id, config), LAMBDA cr :
                     [w |-> cr.w,
                       res |-> IF ~cr.raised /\ cr.val # 0
                               THEN [res EXCEPT !.created = Append(@, server_id)]
                               ELSE IF cr.raised
                               THEN [res EXCEPT !.errors = Append(@, server_id)]
                               ELSE res])
             ELSE Bind(restart_container(ex.w, f, server_id), LAMBDA rr :
                     [w |-> rr.w,
                       res |-> IF rr.val
                               THEN [res EXCEPT !.updated = Append(@, server_id)]
                               ELSE res]))))

RECURSIVE sync_containers_loop(_, _, _, _, _)
sync_containers_loop(w, f, res, mcp_servers, i) ==
    IF i > Len(mcp_servers) THEN [w |-> w, res |-> res]
    ELSE Bind(sync_containers_one(w, f, res, mcp_servers[i]), LAMBDA one :
            sync_containers_loop(one.w, f, one.res, mcp_servers, i + 1))

\* "Find and remove orphaned containers"; an error ends the loop
RECURSIVE sync_containers_sweep(_, _, _, _, _, _)
sync_containers_sweep(w, f, res, mcp_servers, all_containers, i) ==
    IF i > Len(all_containers) THEN [w |-> w, res |-> res]
    ELSE Bind(all_containers[i], LAMBDA id :
            IF Has(mcp_servers, id)
             THEN sync_containers_sweep(w, f, res, mcp_servers, all_containers,
                                        i + 1)
             ELSE IF Fails(f, "container.stop", id, 1)
             THEN [w |-> Failed(w, "container.stop", id), res |-> res]
             ELSE sync_containers_sweep(
                      Called([w EXCEPT !.cont[id] = NoContainer],
                             "container.stop", id),
                      f,
                      [res EXCEPT !.stopped = Append(@, _get_container_name(id))],
                      mcp_servers, all_containers, i + 1))

\* ContainerManager.sync_containers; val is the summary
sync_containers(w, f) ==
    Bind(get_mcp_servers(w.cd), LAMBDA mcp_servers :
    Bind(sync_containers_loop(w, f, NoResults, mcp_servers, 1), LAMBDA lp :
       IF Fails(f, "containers.list", GENERAL, 1)
        THEN Ret(Failed(lp.w, "containers.list", GENERAL), lp.res)
        ELSE Bind(SelectSeq(ServicesOf(lp.w.cont),
                            LAMBDA i : lp.w.cont[i].st # "none"), LAMBDA all_containers :
             Bind(sync_containers_sweep(
                           Called(lp.w, "containers.list", GENERAL), f, lp.res,
                           mcp_servers, all_containers, 1), LAMBDA sw :
                Ret(sw.w, sw.res)))))

(***************************************************************************)
(* ALBManager.sync_alb.                                                    *)
(***************************************************************************)
NoAlbResults == [created |-> <<>>, updated |-> <<>>, deleted |-> <<>>,
                 errors |-> <<>>]

\* the except clause of sync_alb: "General error: ..."
GeneralError(w, res) ==
    [w |-> w, res |-> [res EXCEPT !.errors = Append(@, GENERAL)], raised |-> TRUE]

\* a variant of the body below: the set-up runs without a look at the
\* container
setup_unseen(w, f, res, server_id) ==
    Bind(Marked(w, "alb_service", server_id), LAMBDA w0 :
       IF IsDisabled(w0.cd, server_id)
        THEN [w |-> cleanup_alb_for_server(w0, f, server_id).w,
              res |-> [res EXCEPT !.deleted = Append(@, server_id)],
              raised |-> FALSE]
        ELSE
        Bind(setup_alb_for_server(w0, f, server_id), LAMBDA su :
           [w |-> su.w,
             res |-> IF su.val.errors # 0
                     THEN [res EXCEPT !.errors = Append(@, server_id)]
                     ELSE [res EXCEPT !.updated = Append(@, server_id)],
             raised |-> FALSE]))

\* the body of the first for loop of sync_alb, for one service
sync_alb_one(w, f, res, server_id) ==
    Bind(Marked(w, "alb_service", server_id), LAMBDA w0 :
       IF IsDisabled(w0.cd, server_id)
        THEN [w |-> cleanup_alb_for_server(w0, f, server_id).w,
              res |-> [res EXCEPT !.deleted = Append(@, server_id)],
              raised |-> FALSE]
        ELSE
        Bind(get_container_info(w0, f, server_id), LAMBDA ci :
           IF ci.raised THEN [w |-> ci.w, res |-> res, raised |-> TRUE]
            ELSE IF ~ci.val.exists \/ ~ci.val.running
            THEN [w |-> ci.w, res |-> res, raised |-> FALSE]
            ELSE
            Bind(setup_alb_for_server(ci.w, f, server_id), LAMBDA su :
               [w |-> su.w,
                 res |-> IF su.val.errors # 0
                         THEN [res EXCEPT !.errors = Append(@, server_id)]
                         ELSE IF su.val.target_group_created /\ su.val.rule_created
                         THEN [res EXCEPT !.created = Append(@, server_id)]
                         ELSE [res EXCEPT !.updated = Append(@, server_id)],
                 raised |-> FALSE])))

RECURSIVE sync_alb_loop(_, _, _, _, _)
sync_alb_loop(w, f, res, mcp_servers, i) ==
    IF i > Len(mcp_servers) THEN [w |-> w, res |-> res, raised |-> FALSE]
    ELSE Bind(sync_alb_one(w, f, res, mcp_servers[i]), LAMBDA one :
            IF one.raised THEN one
             ELSE sync_alb_loop(one.w, f, one.res, mcp_servers, i + 1))

\* the listing describe_target_groups() returns, by ARN
RECURSIVE ListTargetGroups(_)
ListTargetGroups(S) ==
    IF S = {} THEN <<>>
    ELSE Bind(CHOOSE x \in S : \A y \in S : x.arn <= y.arn, LAMBDA t :
            <<t>> \o ListTargetGroups(S \ {t}))

\* a variant of the sweep below: the service of the tag is not looked up
\* in mcp_servers
RECURSIVE sweep_every_tagged(_, _, _, _, _, _)
sweep_every_tagged(w, f, res, mcp_servers, listing, i) ==
    IF i > Len(listing) THEN [w |-> w, res |-> res, raised |-> FALSE]
    ELSE IF Fails(f, "describe_tags", GENERAL, 1)
            \/ ~\E t \in w.tgs : t.arn = listing[i].arn
    THEN [w |-> Failed(w, "describe_tags", GENERAL), res |-> res, raised |-> TRUE]
    ELSE Bind(listing[i].managed, LAMBDA is_mcp_target_group :
         Bind(listing[i].service, LAMBDA server_id :
         Bind(Called(w, "describe_tags", GENERAL), LAMBDA w1 :
            IF is_mcp_target_group /\ server_id # NoService
             THEN sweep_every_tagged(
                      cleanup_alb_for_server(Marked(w1, "orphan", server_id), f,
                                             server_id).w,
                      f, [res EXCEPT !.deleted = Append(@, server_id)],
                      mcp_servers, listing, i + 1)
             ELSE sweep_every_tagged(w1, f, res, mcp_servers, listing, i + 1))))

\* "Find and clean up orphaned target groups"
RECURSIVE sync_alb_sweep(_, _, _, _, _, _)
sync_alb_sweep(w, f, res, mcp_servers, listing, i) ==
    IF i > Len(listing) THEN [w |-> w, res |-> res, raised |-> FALSE]
    ELSE IF Fails(f, "describe_tags", GENERAL, 1)
            \/ ~\E t \in w.tgs : t.arn = listing[i].arn
    THEN [w |-> Failed(w, "describe_tags", GENERAL), res |-> res, raised |-> TRUE]
    ELSE Bind(listing[i].managed, LAMBDA is_mcp_target_group :
         Bind(listing[i].service, LAMBDA server_id :
         Bind(Called(w, "describe_tags", GENERAL), LAMBDA w1 :
            IF is_mcp_target_group /\ server_id # NoService
                /\ ~Has(mcp_servers, server_id)
             THEN sync_alb_sweep(
                      cleanup_alb_for_server(Marked(w1, "orphan", server_id), f,
                                             server_id).w,
                      f, [res EXCEPT !.deleted = Append(@, server_id)],
                      mcp_servers, listing, i + 1)
             ELSE sync_alb_sweep(w1, f, res, mcp_servers, listing, i + 1))))

\* ALBManager.sync_alb; val is the summary
sync_alb(w, f) ==
    Bind(get_mcp_servers(w.cd), LAMBDA mcp_servers :
    Bind(sync_alb_loop(Marked(w, "sync_alb", GENERAL), f, NoAlbResults,
                            mcp_servers, 1), LAMBDA lp :
       IF lp.raised THEN Ret(lp.w, GeneralError(lp.w, lp.res).res)
        ELSE IF Fails(f, "describe_all_target_groups", GENERAL, 1)
        THEN Ret(Failed(lp.w, "describe_all_target_groups", GENERAL),
                 GeneralError(lp.w, lp.res).res)
        ELSE Bind(sync_alb_sweep(
                           Called(lp.w, "describe_all_target_groups", GENERAL), f,
                           lp.res, mcp_servers, ListTargetGroups(lp.w.tgs), 1), LAMBDA sw :
                IF sw.raised THEN Ret(sw.w, GeneralError(sw.w, sw.res).res)
                 ELSE Ret(Marked(sw.w, "sweep_done", GENERAL), sw.res))))

(***************************************************************************)
(* The state machine.                                                      *)
(***************************************************************************)
Desired == {"absent", "enabled", "disabled"}

\* what an earlier run of the system can have left behind for a service:
\* nothing, or a tagged target group with its rule (for a service that is
\* enabled, and a ContainerManager, the console's actions lead there)
LeftTg(id) == [arn |-> Index(id),
               name |-> _get_target_group_name(id), managed |-> TRUE,
               service |-> id, targets |-> {ComposePort(id)}]
LeftRule(id) == [arn |-> Index(id), prio |-> Index(id),
                 path |-> _get_path_pattern(id), tg |-> LeftTg(id).arn]

\* sys.exit has not been called
NoExit == -1

\* no name has been derived
NoProbe == [server_id |-> <<>>, names |-> <<>>]

\* nothing is out
Sound == NoFault

\* the background loop's thread and the console's (main.py:161-166)
Threads == {"loop", "console"}
\* a thread that is in none of the operations followed step by step
AtRest == [pc |-> "rest", server_id |-> GENERAL, host_port |-> 0,
           target_group_arn |-> 0, priority |-> 0]
NoThreads == [t \in Threads |-> AtRest]

\* the loop and the probe at rest: the handlers are driven one by one
Idle ==
    /\ env = Sound
    /\ threads = NoThreads
    /\ interval = 0
    /\ shutdown_requested = FALSE
    /\ slept = 0
    /\ passes = 0
    /\ exit_code = NoExit
    /\ probe = NoProbe

\* the state after the constructors, with the manager `wired` given to the
\* ALBManager
Constructed(wired) ==
    /\ phase = "ready"
    /\ wiring = wired
    /\ file \in [Ids -> Desired]
    /\ compose_data = file
    /\ containers = [i \in Ids |-> NoContainer]
    /\ port_allocations = [i \in Ids |-> 0]
    /\ \E routed \in SUBSET {i \in Ids : wired = "compose" \/ file[i] # "enabled"} :
          /\ aws_tgs = {LeftTg(i) : i \in routed}
          /\ aws_rules = {LeftRule(i) : i \in routed}
    /\ target_groups = [i \in Ids |-> 0]
    /\ service_results = NoResults
    /\ alb_results = NoAlbResults
    /\ log = <<>>
    /\ fault = NoFault
    /\ clean = 0
    /\ pristine = (aws_tgs = {})

\* the handlers driven one by one on the constructed managers
Start(wired) == Constructed(wired) /\ Idle

\* main(): ComposeManager(config_manager), ALBManager(config_manager,
\* compose_manager)
Init == Start("compose")

\* did the handler whose log is lg make the remote call of plan f / fail at it
Reached(f, lg) ==
    \E i \in 1..Len(lg) :
       \/ lg[i].op = f.site /\ lg[i].id = f.id
       \/ lg[i].op \in Out(f.site)
FaultHit(f, lg) ==
    IF \E i \in 1..Len(lg) :
          /\ ~lg[i].ok
          /\ \/ lg[i].op = f.site /\ lg[i].id = f.id
             \/ lg[i].op \in Out(f.site)
    THEN f ELSE NoFault
\* the plans of F a handler can run into: up to its first failure it makes
\* the remote calls of its fault-free run, whose log is lg
Hittable(F, lg) == {f \in F : f = NoFault \/ Reached(f, lg)}

\* the world after a handler becomes the state
Install(w) ==
    /\ containers' = w.cont
    /\ port_allocations' = w.pa
    /\ compose_data' = w.cd
    /\ aws_tgs' = w.tgs
    /\ aws_rules' = w.rules
    /\ target_groups' = w.cache
    /\ log' = SelectSeq(w.log, LAMBDA e : e.op \notin RuntimeSites \cup {"service"})

\* the desired-state files the operator can have written since the file
\* was last read: the same one, one with one service changed, or one
\* that does not parse; a file that does not parse is repaired to any file
Edits(old) ==
    IF old = Garbled THEN {Garbled} \cup [Ids -> Desired]
    ELSE {old, Garbled} \cup {[old EXCEPT ![i] = d] : i \in Ids, d \in Desired}

\* a pass ran: the monitors count the fault-free ones over an unchanged file
Monitors(f, w, edited) ==
    /\ fault' = FaultHit(f, w.log)
    /\ clean' = IF FaultHit(f, w.log) # NoFault \/ wiring # "compose" THEN 0
                ELSE IF edited THEN 1
                ELSE IF clean < 2 THEN clean + 1 ELSE 2
    /\ pristine' = (pristine /\ wiring = "compose" /\ ~edited
                    /\ FaultHit(f, w.log) = NoFault)

\* a handler that is not a pass ran and left the world w: it returns no
\* summary
Other(f, w) ==
    /\ Install(w)
    /\ fault' = FaultHit(f, w.log)
    /\ clean' = 0
    /\ pristine' = FALSE
    /\ service_results' = NoResults
    /\ alb_results' = NoAlbResults

\* a variant of the iteration below: sync_alb before load_config and
\* sync_services
routing_first_pass(on_disk, f) ==
    Bind(sync_alb([World EXCEPT !.disk = on_disk], f), LAMBDA ar :
    Bind(sync_services(load_compose_data(ar.w), f), LAMBDA sr :
       [sr |-> sr, ar |-> [ar EXCEPT !.w = sr.w]]))

\* one iteration of reconciliation_loop: load_config, sync_services, sync_alb
\* (sr: the container sync, ar: sync_alb)
reconciliation_pass(on_disk, f) ==
    Bind(sync_services(load_compose_data([World EXCEPT !.disk = on_disk]), f), LAMBDA sr :
       [sr |-> sr, ar |-> sync_alb(sr.w, f)])

\* a pass p ran under plan f: its world becomes the state, its summaries
\* are returned
Passed(p, f, edited) ==
    /\ Install(p.ar.w)
    /\ service_results' = p.sr.val
    /\ alb_results' = p.ar.val
    /\ Monitors(f, p.ar.w, edited)

\* The loop runs a pass; it reads the file as the operator left it.
LoopPass(on_disk, f) ==
    /\ phase = "ready"
    /\ phase' = "reporting"
    /\ wiring = "compose"
    /\ file' = on_disk
    /\ Passed(reconciliation_pass(on_disk, f), f, on_disk # file)
    /\ UNCHANGED <<wiring, aside>>

\* the console's /sync: sync_containers, then sync_alb
sync(f) ==
    Bind(sync_containers(World, f), LAMBDA sr :
       [sr |-> sr, ar |-> sync_alb(sr.w, f)])

ConsoleSync(f) ==
    /\ phase = "ready"
    /\ phase' = "reporting"
    /\ wiring = "container"
    /\ Passed(sync(f), f, FALSE)
    /\ UNCHANGED <<wiring, file, aside>>

\* the console's /container/<id>/create and /container/<id>/start
start_container(server_id, f) ==
    Bind(create_container(World, f, server_id,
                               FlatEntry(compose_data, server_id)), LAMBDA cr :
       IF ~cr.raised /\ cr.val # 0
        THEN setup_alb_for_server(cr.w, f, server_id).w
        ELSE cr.w)

ConsoleCreate(server_id, f) ==
    /\ phase = "ready"
    /\ phase' = "reporting"
    /\ wiring = "container"
    /\ compose_data[server_id] # "absent"
    /\ Other(f, start_container(server_id, f))
    /\ UNCHANGED <<wiring, file, aside>>

\* the console's /container/<id>/stop: the message it flashes tells what
\* stop_container returned
route_stop_container(server_id, f) ==
    Bind(stop_container(World, f, server_id), LAMBDA sr :
       Logged(sr.w, Event("stop_container", server_id, 0, {}, sr.val)))

ConsoleStop(server_id, f) ==
    /\ phase = "ready"
    /\ phase' = "reporting"
    /\ wiring = "container"
    /\ Other(f, route_stop_container(server_id, f))
    /\ UNCHANGED <<wiring, file, aside>>

\* ContainerManager.get_all_container_info: the info of every configured
\* server; the page shows the "exists" of each
RECURSIVE get_all_container_info(_, _, _, _)
get_all_container_info(w, f, mcp_servers, i) ==
    IF i > Len(mcp_servers) THEN w
    ELSE Bind(ContainerManager_get_container_info(w, f, mcp_servers[i]), LAMBDA ci :
            get_all_container_info(
                Logged(ci.w, Event("get_container_info", mcp_servers[i], 0, {},
                                   ci.val.exists)),
                f, mcp_servers, i + 1))

\* the console's /containers
ConsoleContainers(f) ==
    /\ phase = "ready"
    /\ phase' = "reporting"
    /\ wiring = "container"
    /\ Other(f, get_all_container_info(World, f, get_mcp_servers(compose_data), 1))
    /\ UNCHANGED <<wiring, file, aside>>

\* the console's /container/<id>/restart
ConsoleRestart(server_id, f) ==
    /\ phase = "ready"
    /\ phase' = "reporting"
    /\ wiring = "container"
    /\ Other(f, restart_container(World, f, server_id).w)
    /\ UNCHANGED <<wiring, file, aside>>

\* The handler has logged or rendered its summaries and returns (the loop
\* sleeps until the next pass): its locals are gone.
Return ==
    /\ phase = "reporting"
    /\ phase' = "ready"
    /\ service_results' = NoResults
    /\ alb_results' = NoAlbResults
    /\ log' = <<>>
    /\ fault' = NoFault
    /\ UNCHANGED <<wiring, file, compose_data, containers, port_allocations,
                   aws_tgs, aws_rules, target_groups, clean, pristine, aside>>

\* the remote calls a pass of the reconciliation loop makes
LoopSites == ComposeSites \cup TeardownSites
LoopFaults == FaultsAt(LoopSites, Ids)
              \cup FaultsAt(SweepSites \cup {"compose_ps_all"}, {GENERAL})

Next ==
    \/ /\ phase = "ready"
       /\ \E on_disk \in Edits(file) :
             \E f \in Hittable(LoopFaults,
                               reconciliation_pass(on_disk, NoFault).ar.w.log) :
                LoopPass(on_disk, f)
    \/ Return

Spec == Init /\ [][Next]_vars

(***************************************************************************)
(* The ALBManager constructed with a ContainerManager, driven from the     *)
(* console.                                                                *)
(***************************************************************************)
InitConsole == Start("container")

\* the remote calls the console's handlers make
SyncFaults == FaultsAt(DockerSites \cup SetupSites \cup TeardownSites, Ids)
              \cup FaultsAt(SweepSites \cup {"containers.list"}, {GENERAL})
CreateFaults(id) == FaultsAt({"containers.get", "containers.run"} \cup SetupSites,
                             {id})
StopFaults(id) == FaultsAt({"containers.get", "container.stop"}, {id})
RestartFaults(id) == FaultsAt({"containers.get", "container.restart"}, {id})
InfoFaults == FaultsAt({"containers.get"}, Ids)

NextConsole ==
    \/ /\ phase = "ready"
       /\ \E f \in Hittable(SyncFaults, sync(NoFault).ar.w.log) : ConsoleSync(f)
    \/ /\ phase = "ready"
       /\ \E id \in Ids :
             \E f \in Hittable(CreateFaults(id), start_container(id, NoFault).log) :
                ConsoleCreate(id, f)
    \/ \E id \in Ids : \E f \in StopFaults(id) : ConsoleStop(id, f)
    \/ \E id \in Ids : \E f \in RestartFaults(id) : ConsoleRestart(id, f)
    \/ /\ phase = "ready"
       /\ \E f \in Hittable(InfoFaults,
                             get_all_container_info(World, NoFault,
                                                    get_mcp_servers(compose_data),
                                                    1).log) :
             ConsoleContainers(f)
    \/ Return

SpecConsole == InitConsole /\ [][NextConsole]_vars

(***************************************************************************)
(* The listener is shared: its operator adds and removes rules of their    *)
(* own, and removes rules the ALBManager created, while the console        *)
(* creates the services' rules.                                            *)
(***************************************************************************)
ForeignPath == <<"/", "x", "/", "*">>
ForeignPriorities == 1..MaxForeignPriority

InitListener ==
    /\ Start("container")
    /\ file = [i \in Ids |-> "enabled"]

\* the operator adds a rule with a priority that is free (the provider
\* refuses one that is in use)
OperatorAddsRule(p) ==
    /\ phase = "ready"
    /\ p \notin {r.prio : r \in aws_rules}
    /\ aws_rules' = aws_rules \cup
          {[arn |-> FirstFree({r.arn : r \in aws_rules}, Len(Order) + 1),
            prio |-> p, path |-> ForeignPath, tg |-> 0]}
    /\ UNCHANGED <<phase, wiring, file, compose_data, containers, port_allocations,
                   aws_tgs, target_groups, service_results, alb_results, log,
                   fault, clean, pristine, aside>>

\* the operator removes a rule
OperatorRemovesRule(r) ==
    /\ phase = "ready"
    /\ r \in aws_rules
    /\ aws_rules' = aws_rules \ {r}
    /\ UNCHANGED <<phase, wiring, file, compose_data, containers, port_allocations,
                   aws_tgs, target_groups, service_results, alb_results, log,
                   fault, clean, pristine, aside>>

\* the remote calls of create_listener_rule's allocation and creation
RuleFaults(id) == FaultsAt({"describe_rules_priority", "create_rule"}, {id})

NextListener ==
    \/ /\ phase = "ready"
       /\ \E id \in Ids :
             \E f \in Hittable(RuleFaults(id), start_container(id, NoFault).log) :
                ConsoleCreate(id, f)
    \/ \E p \in ForeignPriorities : OperatorAddsRule(p)
    \/ \E r \in aws_rules : OperatorRemovesRule(r)
    \/ Return

SpecListener == InitListener /\ [][NextListener]_vars

(***************************************************************************)
(* The decorated operations under failures that end after one or two       *)
(* attempts, or last.                                                      *)
(***************************************************************************)
InitRetry ==
    /\ Start("container")
    /\ file = [i \in Ids |-> "enabled"]

NextRetry ==
    \/ /\ phase = "ready"
       /\ \E id \in Ids :
             \E f \in Hittable(TransientFaults(RetriedSites, {id}),
                               start_container(id, NoFault).log) :
                ConsoleCreate(id, f)
    \/ \E id \in Ids : ConsoleStop(id, NoFault)
    \/ Return

SpecRetry == InitRetry /\ [][NextRetry]_vars

(***************************************************************************)
(* The name derivation on its own: ids of every length up to MaxIdLen,     *)
(* made of a run of letters with at most one other character somewhere in  *)
(* it, and the id of the scenario; the name is derived again and again     *)
(* while the listener's rules change in between.                           *)
(***************************************************************************)
\* characters a service id is made of: letters, digits, and what YAML
\* allows besides
IdChars == {"a", "Z", "7", "-", "_", ".", " ", "/"}

Rep(c, n) == [i \in 1..n |-> c]

ScenarioId ==
    <<"v", "e", "r", "y", "-", "l", "o", "n", "g", "-",
      "s", "e", "r", "v", "i", "c", "e", "-", "n", "a", "m", "e", "-",
      "t", "h", "a", "t", "-", "e", "x", "c", "e", "e", "d", "s", "-",
      "l", "i", "m", "i", "t">>

ProbeIds ==
    {ScenarioId} \cup
    {id \in {Rep("x", j) \o h \o Rep("x", k) :
                j \in 0..MaxIdLen, k \in 0..MaxIdLen,
                h \in {<<>>} \cup {<<c>> : c \in IdChars}} :
        Len(id) <= MaxIdLen}

InitName ==
    /\ Constructed("container")
    /\ file = [i \in Ids |-> "enabled"]
    /\ env = Sound
    /\ threads = NoThreads
    /\ interval = 0
    /\ shutdown_requested = FALSE
    /\ slept = 0
    /\ passes = 0
    /\ exit_code = NoExit
    /\ probe \in [server_id : ProbeIds, names : {<<>>}]

\* one more call of _get_target_group_name(server_id)
Derive ==
    /\ Len(probe.names) < MaxCalls
    /\ probe' = [probe EXCEPT
                    !.names = Append(@, _get_target_group_name(probe.server_id))]
    /\ UNCHANGED <<phase, wiring, file, compose_data, containers, port_allocations,
                   aws_tgs, aws_rules, target_groups, service_results,
                   alb_results, log, fault, clean, pristine, env, threads, interval,
                   shutdown_requested, slept, passes, exit_code>>

NextName ==
    \/ Derive
    \/ \E p \in ForeignPriorities : aws_rules = {} /\ OperatorAddsRule(p)
    \/ \E r \in aws_rules : OperatorRemovesRule(r)

SpecName == InitName /\ [][NextName]_vars

(***************************************************************************)
(* The desired-set extraction on its own.  A compose file gives every      *)
(* service of Ids no entry, or an entry whose labels are missing, a        *)
(* mapping or a list of key=value strings; the labels it means are drawn   *)
(* first and then written in one of the two forms, as YAML loads them: a   *)
(* mapping holds strings and booleans, a list holds strings, and may hold  *)
(* a string without "=" as well.                                           *)
(***************************************************************************)
\* everything but the probe
apart == <<phase, wiring, file, compose_data, containers, port_allocations,
           aws_tgs, aws_rules, target_groups, service_results, alb_results,
           log, fault, clean, pristine, env, threads, interval, shutdown_requested,
           slept, passes, exit_code>>

\* the managers constructed and at rest while a function is probed
Apart ==
    /\ Constructed("container")
    /\ file = [i \in Ids |-> "enabled"]
    /\ env = Sound
    /\ threads = NoThreads
    /\ interval = 0
    /\ shutdown_requested = FALSE
    /\ slept = 0
    /\ passes = 0
    /\ exit_code = NoExit

mcp_disabled == <<"m", "c", "p", ".", "d", "i", "s", "a", "b", "l", "e", "d">>
mcp_path == <<"m", "c", "p", ".", "p", "a", "t", "h">>
LabelKeys == {mcp_disabled, mcp_path}

\* a label value as YAML loads it: a string, or a boolean (mapping only)
StrVal(chars) == [kind |-> "str", s |-> chars, b |-> FALSE]
BoolVal(b) == [kind |-> "bool", s |-> <<>>, b |-> b]
Texts == {<<"t", "r", "u", "e">>, <<"T", "R", "U", "E">>, <<"t", "R", "u", "E">>,
          <<"f", "a", "l", "s", "e">>, <<>>, <<" ", "t", "r", "u", "e">>,
          <<"t", "r", "u", "e", "=", "1">>}
PathTexts == {<<"/", "x">>}
LabelValues(k) ==
    IF k = mcp_disabled THEN {StrVal(t) : t \in Texts} \cup {BoolVal(b) : b \in BOOLEAN}
    ELSE {StrVal(t) : t \in PathTexts}

\* the labels a service is given: key -> value, over some of the keys
Meant == UNION {{m \in [K -> UNION {LabelValues(k) : k \in K}] :
                    \A k \in K : m[k] \in LabelValues(k)} : K \in SUBSET LabelKeys}

\* the two forms: a mapping, or a list with one "key=value" per label in
\* either order, with or without a string that holds no "="
NoEntry == [form |-> "absent", map |-> <<>>, items |-> <<>>]
NoLabels == [form |-> "none", map |-> <<>>, items |-> <<>>]
AsMapping(m) == [form |-> "mapping", map |-> m, items |-> <<>>]
Item(k, v) == k \o <<"=">> \o v.s
Junk == <<"j", "u", "n", "k">>
Listings(m) ==
    LET K == DOMAIN m
        orders == {q \in [1..Cardinality(K) -> K] :
                      \A i, j \in 1..Cardinality(K) : q[i] = q[j] => i = j}
        plain == {[i \in 1..Cardinality(K) |-> Item(q[i], m[q[i]])] : q \in orders}
    IN  plain \cup {<<Junk>> \o l : l \in plain}
AsList(m) ==
    IF \E k \in DOMAIN m : m[k].kind = "bool" THEN {}
    ELSE {[form |-> "list", map |-> <<>>, items |-> l] : l \in Listings(m)}
Written(m) == {AsMapping(m)} \cup AsList(m)
Entries == {NoEntry, NoLabels} \cup UNION {Written(m) : m \in Meant}

\* str(v) and str.lower()
str(v) ==
    IF v.kind = "bool"
    THEN (IF v.b THEN <<"T", "r", "u", "e">> ELSE <<"F", "a", "l", "s", "e">>)
    ELSE v.s
lower_char(c) ==
    CASE c = "T" -> "t" [] c = "R" -> "r" [] c = "U" -> "u" [] c = "E" -> "e"
      [] c = "F" -> "f" [] OTHER -> c
lower(t) == [i \in 1..Len(t) |-> lower_char(t[i])]

\* label.split('=', 1) of a label that holds "="
Eq(label) == {i \in 1..Len(label) : label[i] = "="}
split(label) ==
    [key |-> SubSeq(label, 1, Min(Eq(label)) - 1),
     value |-> SubSeq(label, Min(Eq(label)) + 1, Len(label))]

\* the loop over a list of labels: label_dict[key] = value for every label
\* with "=", later labels overwriting earlier ones
RECURSIVE label_dict(_, _, _)
label_dict(labels, n, acc) ==
    IF n > Len(labels) THEN acc
    ELSE IF Eq(labels[n]) = {} THEN label_dict(labels, n + 1, acc)
    ELSE Bind(split(labels[n]), LAMBDA kv :
            label_dict(labels, n + 1,
                       [k \in DOMAIN acc \cup {kv.key} |->
                           IF k = kv.key THEN StrVal(kv.value) ELSE acc[k]]))

\* labels = service_config.get('labels', {}), a list turned into a dict
labels_of(service_config) ==
    IF service_config.form = "list" THEN label_dict(service_config.items, 1, <<>>)
    ELSE service_config.map

\* labels.get('mcp.disabled', "false") compared as it stands
disabled_without_lower(service_config) ==
    Bind(labels_of(service_config), LAMBDA labels :
       str(IF mcp_disabled \in DOMAIN labels THEN labels[mcp_disabled]
           ELSE StrVal(<<"f", "a", "l", "s", "e">>)) = <<"t", "r", "u", "e">>)

\* str(labels.get('mcp.disabled', "false")).lower() == "true"
disabled_of(service_config) ==
    Bind(labels_of(service_config), LAMBDA labels :
       lower(str(IF mcp_disabled \in DOMAIN labels THEN labels[mcp_disabled]
                 ELSE StrVal(<<"f", "a", "l", "s", "e">>))) = <<"t", "r", "u", "e">>)

\* get_mcp_servers on the services as loaded: id -> [disabled], for the
\* services that have an entry
servers_of(services) ==
    [i \in {j \in Ids : services[j].form # "absent"} |->
        [disabled |-> disabled_of(services[i])]]

\* ConfigManager.settings after _load_settings: the defaults, the file's
\* values over them
Sections == {"aws", "service"}
Keys == {"region", "reconciliation_interval_seconds"}
Defaults == {"default", "none"}
Settings ==
    {[aws |-> [region |-> r, listener_arn |-> "unset"],
      service |-> [reconciliation_interval_seconds |-> "60"]] :
        r \in {"us-west-2", "eu-west-1"}}

\* self.settings.get(section, {}).get(key, default)
get_setting(settings, section, key, default) ==
    IF section \in DOMAIN settings
    THEN (IF key \in DOMAIN settings[section] THEN settings[section][key]
          ELSE default)
    ELSE default

NoServers == [services |-> <<>>, meant |-> <<>>, servers |-> <<>>, done |-> FALSE,
              settings |-> <<>>, section |-> "", key |-> "", default |-> "",
              value |-> "", asked |-> FALSE]

InitConfig ==
    /\ Apart
    /\ \E meant \in [Ids -> Meant] :
          \E services \in [Ids -> Entries] :
             /\ \A i \in Ids :
                   services[i] \in {NoEntry} \cup Written(meant[i])
                   \/ (services[i] = NoLabels /\ meant[i] = <<>>)
             /\ \E settings \in Settings :
                   probe = [NoServers EXCEPT !.services = services,
                                             !.meant = meant,
                                             !.settings = settings]

\* get_mcp_servers() is called
Extract ==
    /\ ~probe.done
    /\ probe' = [probe EXCEPT !.servers = servers_of(probe.services),
                              !.done = TRUE]
    /\ UNCHANGED apart

\* get_setting(section, key, default) is called, after get_mcp_servers as
\* in test_config_manager
Ask(section, key, default) ==
    /\ probe.done
    /\ ~probe.asked
    /\ probe' = [probe EXCEPT
                    !.section = section, !.key = key, !.default = default,
                    !.value = get_setting(probe.settings, section, key, default),
                    !.asked = TRUE]
    /\ UNCHANGED apart

NextConfig ==
    \/ Extract
    \/ \E section \in Sections \cup {"nonexistent"} :
          \E key \in Keys \cup {"key"} :
             \E default \in Defaults : Ask(section, key, default)

SpecConfig == InitConfig /\ [][NextConfig]_vars

(***************************************************************************)
(* create_listener_rule called on its own, as test_alb_manager calls it,   *)
(* on a manager given a ContainerManager: the console creates the          *)
(* services, somebody else removes or retargets a rule, and the call may   *)
(* fail at one of its remote calls on the rules.  probe holds the call,    *)
(* what it found and what it returned.                                     *)
(***************************************************************************)
process == <<env, threads, interval, shutdown_requested, slept, passes, exit_code>>

\* a rule is made to forward somewhere else
OperatorRetargetsRule(r) ==
    /\ phase = "ready"
    /\ r \in aws_rules
    /\ r.tg # 0
    /\ aws_rules' = (aws_rules \ {r}) \cup {[r EXCEPT !.tg = 0]}
    /\ UNCHANGED <<phase, wiring, file, compose_data, containers, port_allocations,
                   aws_tgs, target_groups, service_results, alb_results, log,
                   fault, clean, pristine, aside>>

\* a target group is deleted (the provider refuses while a rule forwards
\* to it)
OperatorDeletesTargetGroup(t) ==
    /\ phase = "ready"
    /\ t \in aws_tgs
    /\ \A r \in aws_rules : r.tg # t.arn
    /\ aws_tgs' = aws_tgs \ {t}
    /\ UNCHANGED <<phase, wiring, file, compose_data, containers, port_allocations,
                   aws_rules, target_groups, service_results, alb_results, log,
                   fault, clean, pristine, aside>>

InitAlb ==
    /\ Start("container")
    /\ file = [i \in Ids |-> "enabled"]

\* the method op was called for server_id under plan f and returned r
Probed(op, server_id, f, r) ==
    /\ phase = "ready"
    /\ phase' = "reporting"
    /\ wiring = "container"
    /\ Other(f, r.w)
    /\ probe' = [op |-> op, server_id |-> server_id, val |-> r.val,
                 raised |-> r.raised, tgs |-> aws_tgs, rules |-> aws_rules,
                 cache |-> target_groups, cont |-> containers[server_id],
                 port |-> port_allocations[server_id]]
    /\ UNCHANGED <<wiring, file, process>>

\* the test has looked at what the call returned
Forget ==
    /\ phase = "reporting"
    /\ phase' = "ready"
    /\ service_results' = NoResults
    /\ alb_results' = NoAlbResults
    /\ log' = <<>>
    /\ fault' = NoFault
    /\ probe' = NoProbe
    /\ UNCHANGED <<wiring, file, compose_data, containers, port_allocations,
                   aws_tgs, aws_rules, target_groups, clean, pristine, process>>


RuleCallFaults(id) ==
    FaultsAt({"describe_target_groups", "create_target_group", "add_tags",
              "describe_rules", "create_rule", "modify_rule"}, {id})

NextAlb ==
    \/ /\ phase = "ready"
       /\ \E id \in Ids :
             \E f \in Hittable(RuleCallFaults(id),
                               create_listener_rule(World, NoFault, id).w.log) :
                Probed("create_listener_rule", id, f,
                       create_listener_rule(World, f, id))
    \/ \E id \in Ids : ConsoleCreate(id, NoFault)
    \/ \E r \in aws_rules : OperatorRemovesRule(r)
    \/ \E r \in aws_rules : OperatorRetargetsRule(r)
    \/ \E t \in aws_tgs : OperatorDeletesTargetGroup(t)
    \/ Forget

SpecAlb == InitAlb /\ [][NextAlb]_vars

(***************************************************************************)
(* The ContainerManager on its own: constructed with an empty port cache   *)
(* on a host where containers of an earlier run may still stand, then      *)
(* create_container, stop_container and _find_available_port called one    *)
(* after the other.                                                        *)
(***************************************************************************)
Ports == port_range_start..port_range_end

\* the containers an earlier run can have left: two running ones do not
\* publish the same host port
Leftover ==
    {c \in [Ids -> {NoContainer} \cup [st : {"running", "stopped"}, port : Ports]] :
        \A i, j \in Ids :
            (i # j /\ c[i].st = "running" /\ c[j].st = "running")
                => c[i].port # c[j].port}

InitPort ==
    /\ phase = "ready"
    /\ wiring = "container"
    /\ file = [i \in Ids |-> "enabled"]
    /\ compose_data = file
    /\ containers \in Leftover
    /\ port_allocations = [i \in Ids |-> 0]
    /\ aws_tgs = {}
    /\ aws_rules = {}
    /\ target_groups = [i \in Ids |-> 0]
    /\ service_results = NoResults
    /\ alb_results = NoAlbResults
    /\ log = <<>>
    /\ fault = NoFault
    /\ clean = 0
    /\ pristine = TRUE
    /\ Idle

\* host_port = self._find_available_port(), on its own
Scanned(r) ==
    /\ phase = "ready"
    /\ phase' = "reporting"
    /\ Other(NoFault, r.w)
    /\ probe' = [op |-> "_find_available_port", server_id |-> GENERAL,
                 val |-> r.val, raised |-> r.raised]
    /\ UNCHANGED <<wiring, file, process>>

NextPort ==
    \/ Scanned(_find_available_port(World))
    \/ /\ phase = "ready"
       /\ \E id \in Ids :
             \E f \in FaultsAt({"containers.get", "containers.run"}, {id}) :
                Probed("create_container", id, f,
                       create_container(World, f, id, FlatEntry(compose_data, id)))
    \/ /\ phase = "ready"
       /\ \E id \in Ids : \E f \in StopFaults(id) :
             Probed("stop_container", id, f, stop_container(World, f, id))
    \/ Forget

SpecPort == InitPort /\ [][NextPort]_vars

(***************************************************************************)
(* The loop with every step of a pass on record: the remote calls and the  *)
(* markers of the pass in the order in which it made them.                 *)
(***************************************************************************)
TracedPass(on_disk, f, p) ==
    /\ phase = "ready"
    /\ phase' = "reporting"
    /\ wiring = "compose"
    /\ file' = on_disk
    /\ Passed(p, f, on_disk # file)
    /\ probe' = [op |-> "reconciliation_loop", server_id |-> GENERAL,
                 trace |-> p.ar.w.log]
    /\ UNCHANGED <<wiring, process>>

NextOrder ==
    \/ /\ phase = "ready"
       /\ \E on_disk \in Edits(file) :
             \E f \in Hittable(LoopFaults,
                               reconciliation_pass(on_disk, NoFault).ar.w.log) :
                TracedPass(on_disk, f, reconciliation_pass(on_disk, f))
    \/ Forget

SpecOrder == Init /\ [][NextOrder]_vars

(***************************************************************************)
(* The console's sync on a host where an earlier run left containers,      *)
(* target groups and rules: the managers start with empty caches.          *)
(***************************************************************************)
InitRoute ==
    /\ phase = "ready"
    /\ wiring = "container"
    /\ file \in [Ids -> Desired]
    /\ compose_data = file
    /\ containers \in Leftover
    /\ port_allocations = [i \in Ids |-> 0]
    /\ \E routed \in SUBSET Ids :
          /\ aws_tgs = {LeftTg(i) : i \in routed}
          /\ aws_rules = {LeftRule(i) : i \in routed}
    /\ target_groups = [i \in Ids |-> 0]
    /\ service_results = NoResults
    /\ alb_results = NoAlbResults
    /\ log = <<>>
    /\ fault = NoFault
    /\ clean = 0
    /\ pristine = (aws_tgs = {})
    /\ Idle

NextRoute ==
    \/ /\ phase = "ready"
       /\ \E f \in Hittable(SyncFaults, sync(NoFault).ar.w.log) : ConsoleSync(f)
    \/ Return

SpecRoute == InitRoute /\ [][NextRoute]_vars

(***************************************************************************)
(* The console on such a host: its sync and its create/start actions.      *)
(***************************************************************************)
NextHost ==
    \/ /\ phase = "ready"
       /\ \E f \in Hittable(SyncFaults, sync(NoFault).ar.w.log) : ConsoleSync(f)
    \/ /\ phase = "ready"
       /\ \E id \in Ids :
             \E f \in Hittable(CreateFaults(id), start_container(id, NoFault).log) :
                ConsoleCreate(id, f)
    \/ Return

SpecHost == InitRoute /\ [][NextHost]_vars

(***************************************************************************)
(* The console over services of which some carry the label mcp.path: the   *)
(* entry "pathed" is an enabled service with the label set to a path of    *)
(* its own.                                                                *)
(***************************************************************************)
\* the value of the label mcp.path of a service that carries it
ConfiguredPath(service_id) == <<"/", "a", "p", "i", "/">> \o service_id

\* get_mcp_servers: path = labels.get('mcp.path', f"/mcp/{service_id}")
get_mcp_server_path(cd, service_id) ==
    IF cd[service_id] = "pathed" THEN ConfiguredPath(service_id)
    ELSE <<"/", "m", "c", "p", "/">> \o service_id

InitPath ==
    /\ phase = "ready"
    /\ wiring = "container"
    /\ file \in [Ids -> Desired \cup {"pathed"}]
    /\ compose_data = file
    /\ containers = [i \in Ids |-> NoContainer]
    /\ port_allocations = [i \in Ids |-> 0]
    /\ aws_tgs = {}
    /\ aws_rules = {}
    /\ target_groups = [i \in Ids |-> 0]
    /\ service_results = NoResults
    /\ alb_results = NoAlbResults
    /\ log = <<>>
    /\ fault = NoFault
    /\ clean = 0
    /\ pristine = TRUE
    /\ Idle

SpecPath == InitPath /\ [][NextHost]_vars

(***************************************************************************)
(* Two threads in create_container on one ContainerManager, for two        *)
(* different services: the statements of lines 156-186 one remote call or  *)
(* one assignment at a time, in any interleaving (no lock is taken).       *)
(***************************************************************************)
\* what the threads' steps of create_container leave alone
besides == <<phase, wiring, file, compose_data, aws_tgs, aws_rules, target_groups,
             service_results, alb_results, log, fault, clean, pristine, env,
             interval, shutdown_requested, slept, passes, exit_code, probe>>

\* a thread enters create_container for a service the other is not at
create_container_enters(t, server_id) ==
    /\ phase = "ready"
    /\ threads[t].pc = "rest"
    /\ \A u \in Threads : threads[u].server_id # server_id
    /\ ~FlatEntry(compose_data, server_id).disabled
    /\ threads' = [threads EXCEPT ![t] = [AtRest EXCEPT !.pc = "exists",
                                                        !.server_id = server_id]]
    /\ UNCHANGED <<containers, port_allocations, besides>>

\* lines 156-158: if self._container_exists(container_name): return its id
create_container_looks(t) ==
    /\ threads[t].pc = "exists"
    /\ threads' = [threads EXCEPT ![t] =
                      IF _container_exists(World, NoFault, threads[t].server_id, 1).val
                      THEN AtRest ELSE [@ EXCEPT !.pc = "find"]]
    /\ UNCHANGED <<containers, port_allocations, besides>>

\* line 164: host_port = self._find_available_port()
create_container_finds(t) ==
    /\ threads[t].pc = "find"
    /\ threads' = [threads EXCEPT ![t] =
                      IF _find_available_port(World).raised THEN AtRest
                      ELSE [@ EXCEPT !.pc = "assign",
                                     !.host_port = _find_available_port(World).val]]
    /\ UNCHANGED <<containers, port_allocations, besides>>

\* line 165: self.port_allocations[server_id] = host_port
create_container_assigns(t) ==
    /\ threads[t].pc = "assign"
    /\ port_allocations' = [port_allocations EXCEPT
                               ![threads[t].server_id] = threads[t].host_port]
    /\ threads' = [threads EXCEPT ![t].pc = "run"]
    /\ UNCHANGED <<containers, besides>>

\* lines 175-186: client.containers.run; the daemon creates the container
\* and cannot start it when the host port is bound
create_container_runs(t) ==
    /\ threads[t].pc = "run"
    /\ containers' = [containers EXCEPT ![threads[t].server_id] =
                         [st |-> IF PortListening(World, threads[t].host_port)
                                 THEN "stopped" ELSE "running",
                          port |-> threads[t].host_port]]
    /\ threads' = [threads EXCEPT ![t] = AtRest]
    /\ UNCHANGED <<port_allocations, besides>>

\* a thread at rest stops the container of a service nobody is at
stop_container_between(t, server_id) ==
    /\ phase = "ready"
    /\ threads[t].pc = "rest"
    /\ \A u \in Threads : threads[u].server_id # server_id
    /\ containers[server_id].st # "none"
    /\ containers' = stop_container(World, NoFault, server_id).w.cont
    /\ port_allocations' = stop_container(World, NoFault, server_id).w.pa
    /\ UNCHANGED <<threads, besides>>

NextRace ==
    \/ \E t \in Threads : \E id \in Ids : create_container_enters(t, id)
    \/ \E t \in Threads : create_container_looks(t)
    \/ \E t \in Threads : create_container_finds(t)
    \/ \E t \in Threads : create_container_assigns(t)
    \/ \E t \in Threads : create_container_runs(t)
    \/ \E t \in Threads : \E id \in Ids : stop_container_between(t, id)

SpecRace == InitListener /\ [][NextRace]_vars

(***************************************************************************)
(* Two threads in setup_alb_for_server on one ALBManager, for the same     *)
(* service or for two: the look-up of the rule, the allocation of the      *)
(* priority and create_rule are three remote calls, in any interleaving.   *)
(***************************************************************************)
InitSetupRace ==
    /\ phase = "ready"
    /\ wiring = "container"
    /\ file = [i \in Ids |-> "enabled"]
    /\ compose_data = file
    /\ containers = [i \in Ids |-> [st |-> "running", port |-> ComposePort(i)]]
    /\ port_allocations = [i \in Ids |-> ComposePort(i)]
    /\ aws_tgs = {}
    /\ aws_rules = {}
    /\ target_groups = [i \in Ids |-> 0]
    /\ service_results = NoResults
    /\ alb_results = NoAlbResults
    /\ log = <<>>
    /\ fault = NoFault
    /\ clean = 0
    /\ pristine = TRUE
    /\ Idle

\* what the threads' steps of the set-up leave alone
beyond == <<phase, wiring, file, compose_data, containers, port_allocations,
            service_results, alb_results, fault, clean, pristine, env, interval,
            shutdown_requested, slept, passes, exit_code, probe>>

\* setup_alb_for_server up to create_listener_rule's look-up: the target
\* group is there and the target registered
setup_alb_enters(t, server_id) ==
    /\ phase = "ready"
    /\ threads[t].pc = "rest"
    /\ Bind(create_target_group(World, NoFault, server_id), LAMBDA tr :
       Bind(register_target(tr.w, NoFault, server_id), LAMBDA rr :
          /\ aws_tgs' = rr.w.tgs
          /\ target_groups' = rr.w.cache
          /\ threads' = [threads EXCEPT ![t] =
                            [AtRest EXCEPT !.pc = "check",
                                           !.server_id = server_id,
                                           !.target_group_arn = tr.val]]))
    /\ UNCHANGED <<aws_rules, log, beyond>>

\* lines 324-346: the rule found is returned, or modified to forward to
\* the target group
create_listener_rule_checks(t) ==
    /\ threads[t].pc = "check"
    /\ Bind(_rule_exists_for_path(World, NoFault, threads[t].server_id,
                                  _get_path_pattern(threads[t].server_id), 1).val,
            LAMBDA existing_rule :
          IF existing_rule # NoRule
          THEN /\ aws_rules' = existing_rule_branch(World, NoFault,
                                                    threads[t].server_id, 1,
                                                    existing_rule,
                                                    threads[t].target_group_arn).w.rules
               /\ threads' = [threads EXCEPT ![t] = AtRest]
          ELSE /\ aws_rules' = aws_rules
               /\ threads' = [threads EXCEPT ![t].pc = "priority"])
    /\ UNCHANGED <<aws_tgs, target_groups, log, beyond>>

\* line 354: Priority=self._get_next_available_priority()
create_listener_rule_allocates(t) ==
    /\ threads[t].pc = "priority"
    /\ threads' = [threads EXCEPT
                      ![t].pc = "create",
                      ![t].priority =
                          _get_next_available_priority(World, NoFault,
                                                       threads[t].server_id, 1).val]
    /\ UNCHANGED <<aws_tgs, aws_rules, target_groups, log, beyond>>

\* lines 352-367: create_rule; the provider refuses a priority in use
create_listener_rule_creates(t) ==
    /\ threads[t].pc = "create"
    /\ Bind({r.prio : r \in aws_rules}, LAMBDA held :
          /\ log' = Append(log, Event("create_rule", threads[t].server_id,
                                      threads[t].priority, held,
                                      threads[t].priority \notin held))
          /\ aws_rules' =
                IF threads[t].priority \in held THEN aws_rules
                ELSE aws_rules \cup
                       {[arn |-> FreshRuleArn(World, threads[t].server_id),
                         prio |-> threads[t].priority,
                         path |-> _get_path_pattern(threads[t].server_id),
                         tg |-> threads[t].target_group_arn]})
    /\ threads' = [threads EXCEPT ![t] = AtRest]
    /\ UNCHANGED <<aws_tgs, target_groups, beyond>>

NextSetupRace ==
    \/ \E t \in Threads : \E id \in Ids : setup_alb_enters(t, id)
    \/ \E t \in Threads : create_listener_rule_checks(t)
    \/ \E t \in Threads : create_listener_rule_allocates(t)
    \/ \E t \in Threads : create_listener_rule_creates(t)

SpecSetupRace == InitSetupRace /\ [][NextSetupRace]_vars

(***************************************************************************)
(* The console's sync on a host where an earlier run left target groups    *)
(* of which some never got their tags (add_tags had failed), with or       *)
(* without their rules.                                                    *)
(***************************************************************************)
UntaggedTg(id) == [LeftTg(id) EXCEPT !.managed = FALSE, !.service = NoService]

InitSweep ==
    /\ phase = "ready"
    /\ wiring = "container"
    /\ file \in [Ids -> Desired]
    /\ compose_data = file
    /\ containers \in Leftover
    /\ port_allocations = [i \in Ids |-> 0]
    /\ \E grouped \in SUBSET Ids :
          \E untagged, ruled \in SUBSET grouped :
             /\ aws_tgs = {IF i \in untagged THEN UntaggedTg(i) ELSE LeftTg(i) :
                              i \in grouped}
             /\ aws_rules = {LeftRule(i) : i \in ruled}
    /\ target_groups = [i \in Ids |-> 0]
    /\ service_results = NoResults
    /\ alb_results = NoAlbResults
    /\ log = <<>>
    /\ fault = NoFault
    /\ clean = 0
    /\ pristine = (aws_tgs = {})
    /\ Idle

SpecSweep == InitSweep /\ [][NextRoute]_vars

(***************************************************************************)
(* The console's sync over a compose file whose services are x.y and x-y.  *)
(***************************************************************************)
InitTwins ==
    /\ phase = "ready"
    /\ wiring = "container"
    /\ file \in [Twins -> Desired]
    /\ compose_data = file
    /\ containers \in
          {c \in [Twins -> {NoContainer} \cup [st : {"running", "stopped"}, port : Ports]] :
              (c[TwinA].st = "running" /\ c[TwinB].st = "running")
                 => c[TwinA].port # c[TwinB].port}
    /\ port_allocations = [i \in Twins |-> 0]
    /\ aws_tgs = {}
    /\ aws_rules = {}
    /\ target_groups = [i \in Twins |-> 0]
    /\ service_results = NoResults
    /\ alb_results = NoAlbResults
    /\ log = <<>>
    /\ fault = NoFault
    /\ clean = 0
    /\ pristine = TRUE
    /\ Idle

SpecTwins == InitTwins /\ [][NextRoute]_vars

(***************************************************************************)
(* The loop while the operator writes the desired-state file during a      *)
(* pass: the file read at line 332 of sync_services is the one the         *)
(* operator left in the meantime.                                          *)
(***************************************************************************)
\* ComposeManager.sync_services, with the file `later` on disk when the
\* loop over the services is done; val is the summary
sync_services_during(w, f, later) ==
    Bind(get_mcp_servers(w.cd), LAMBDA mcp_services :
    Bind(sync_services_loop(w, f, NoResults, mcp_services, 1), LAMBDA lp :
    Bind(load_compose_data([lp.w EXCEPT !.disk = later]), LAMBDA w1 :
    Bind(_get_running_services(w1, f), LAMBDA rs :
    Bind(sync_services_sweep(rs.w, f, lp.res, mcp_services, rs.val, 1), LAMBDA sw :
       Ret(sw.w, sw.res))))))

\* one iteration of reconciliation_loop over the file on_disk, which has
\* become `later` when sync_services reads it again
pass_during_edit(on_disk, later, f) ==
    Bind(sync_services_during(load_compose_data([World EXCEPT !.disk = on_disk]),
                              f, later), LAMBDA sr :
       [sr |-> sr, ar |-> sync_alb(sr.w, f)])

EditedPass(on_disk, later, f, p) ==
    /\ phase = "ready"
    /\ phase' = "reporting"
    /\ wiring = "compose"
    /\ file' = later
    /\ Passed(p, f, TRUE)
    /\ probe' = [op |-> "reconciliation_loop", server_id |-> GENERAL,
                 trace |-> p.ar.w.log,
                 loaded |-> load_compose_data([World EXCEPT !.disk = on_disk]).cd]
    /\ UNCHANGED <<wiring, process>>

NextEdit ==
    \/ /\ phase = "ready"
       /\ \E later \in Edits(file) :
             \E f \in Hittable(LoopFaults,
                               pass_during_edit(file, later, NoFault).ar.w.log) :
                EditedPass(file, later, f, pass_during_edit(file, later, f))
    \/ Forget

SpecEdit == Init /\ [][NextEdit]_vars

(***************************************************************************)
(* The loop for ever, with drift between the passes: somebody else         *)
(* retargets a rule of a service or deletes a target group nothing         *)
(* forwards to.  A pass is always possible at the top of the loop          *)
(* (ENABLED <<LoopPass>>_vars is phase = "ready"), so the fairness of the  *)
(* passes is []<>(phase # "ready").                                        *)
(***************************************************************************)
NextHeal ==
    \/ /\ phase = "ready"
       /\ \E on_disk \in Edits(file) :
             \E f \in Hittable(LoopFaults,
                               reconciliation_pass(on_disk, NoFault).ar.w.log) :
                LoopPass(on_disk, f)
    \/ Return
    \/ \E r \in aws_rules : OperatorRetargetsRule(r)
    \/ \E t \in aws_tgs : OperatorDeletesTargetGroup(t)

SpecHeal == Init /\ [][NextHeal]_vars /\ WF_vars(Return) /\ []<>(phase # "ready")

(***************************************************************************)
(* The process: main() from its first line to sys.exit, with the signal    *)
(* handler.  phase is "starting" before the constructors, "ready" at the   *)
(* top of the loop, "reporting" after a pass, "sleeping" at the top of the *)
(* sleep loop, "asleep" inside time.sleep(1), "exited" after sys.exit.     *)
(* The file is not edited while the process runs; what is out stays out.   *)
(***************************************************************************)
\* interval: 0 with --one-shot, else reconciliation_interval_seconds
Intervals == (-1)..MaxInterval

Outages ==
    {Sound} \cup [site : {"compose", "docker", "elbv2", "listener_arn", "vpc_id"},
                  id : {GENERAL}, k : {stop_after_attempt}]

InitMain ==
    /\ phase = "starting"
    /\ wiring = "compose"
    /\ file \in [Ids -> Desired] \cup {Garbled}
    /\ compose_data = NoServices
    /\ containers = [i \in Ids |-> NoContainer]
    /\ port_allocations = [i \in Ids |-> 0]
    /\ \E routed \in SUBSET Ids :
          /\ aws_tgs = {LeftTg(i) : i \in routed}
          /\ aws_rules = {LeftRule(i) : i \in routed}
    /\ target_groups = [i \in Ids |-> 0]
    /\ service_results = NoResults
    /\ alb_results = NoAlbResults
    /\ log = <<>>
    /\ fault = NoFault
    /\ clean = 0
    /\ pristine = (aws_tgs = {})
    /\ env \in Outages
    /\ threads = NoThreads
    /\ interval \in Intervals
    /\ shutdown_requested = FALSE
    /\ slept = 0
    /\ passes = 0
    /\ exit_code = NoExit
    /\ probe = NoProbe

\* signal_handler: SIGTERM or SIGINT arrives
signal_handler ==
    /\ phase # "exited"
    /\ ~shutdown_requested
    /\ shutdown_requested' = TRUE
    /\ UNCHANGED <<phase, wiring, file, compose_data, containers, port_allocations,
                   aws_tgs, aws_rules, target_groups, service_results,
                   alb_results, log, fault, clean, pristine, env, threads, interval,
                   slept, passes, exit_code, probe>>

\* main() up to the call of reconciliation_loop: ConfigManager loads the
\* file, ComposeManager checks for docker compose and raises without it,
\* ALBManager makes a client (boto3.client contacts nothing and reads neither
\* listener_arn nor vpc_id); an exception ends in sys.exit(1)
main ==
    /\ phase = "starting"
    /\ compose_data' = load_compose_data(World).cd
    /\ IF Fails(env, "compose_version", GENERAL, 1)
       THEN phase' = "exited" /\ exit_code' = 1
       ELSE phase' = "ready" /\ exit_code' = exit_code
    /\ UNCHANGED <<wiring, file, containers, port_allocations,
                   aws_tgs, aws_rules, target_groups, service_results,
                   alb_results, log, fault, clean, pristine, env, threads, interval,
                   shutdown_requested, slept, passes, probe>>

\* while not shutdown_requested: left with the flag set, the loop returns
\* and main calls sys.exit(0)
loop_returns ==
    /\ phase = "ready"
    /\ shutdown_requested
    /\ phase' = "exited"
    /\ exit_code' = 0
    /\ UNCHANGED <<wiring, file, compose_data, containers, port_allocations,
                   aws_tgs, aws_rules, target_groups, service_results,
                   alb_results, log, fault, clean, pristine, env, threads, interval,
                   shutdown_requested, slept, passes, probe>>

\* while not shutdown_requested: one pass, under what is out
loop_pass ==
    /\ phase = "ready"
    /\ ~shutdown_requested
    /\ phase' = "reporting"
    /\ passes' = IF passes < MaxPasses THEN passes + 1 ELSE MaxPasses
    /\ Passed(reconciliation_pass(file, env), env, FALSE)
    /\ UNCHANGED <<wiring, file, env, threads, interval, shutdown_requested, slept,
                   exit_code, probe>>

\* the sleep loop entered at once where the one-shot break belongs
sleep_after_every_pass ==
    /\ phase = "reporting"
    /\ phase' = "sleeping"
    /\ slept' = 0
    /\ service_results' = NoResults
    /\ alb_results' = NoAlbResults
    /\ log' = <<>>
    /\ fault' = NoFault
    /\ UNCHANGED <<wiring, file, compose_data, containers, port_allocations,
                   aws_tgs, aws_rules, target_groups, clean, pristine, env, threads,
                   interval, shutdown_requested, passes, exit_code, probe>>

\* a variant of the step below: a pass that reported errors ends the loop
exit_on_failed_pass ==
    /\ phase = "reporting"
    /\ IF interval <= 0 \/ service_results.errors # <<>> \/ alb_results.errors # <<>>
       THEN phase' = "exited" /\ exit_code' = 0 /\ slept' = slept
       ELSE phase' = "sleeping" /\ exit_code' = exit_code /\ slept' = 0
    /\ service_results' = NoResults
    /\ alb_results' = NoAlbResults
    /\ log' = <<>>
    /\ fault' = NoFault
    /\ UNCHANGED <<wiring, file, compose_data, containers, port_allocations,
                   aws_tgs, aws_rules, target_groups, clean, pristine, env, threads,
                   interval, shutdown_requested, passes, probe>>

\* after the pass: if interval <= 0: break (and sys.exit(0)); else the sleep
\* loop is entered
after_pass ==
    /\ phase = "reporting"
    /\ IF interval <= 0
       THEN phase' = "exited" /\ exit_code' = 0 /\ slept' = slept
       ELSE phase' = "sleeping" /\ exit_code' = exit_code /\ slept' = 0
    /\ service_results' = NoResults
    /\ alb_results' = NoAlbResults
    /\ log' = <<>>
    /\ fault' = NoFault
    /\ UNCHANGED <<wiring, file, compose_data, containers, port_allocations,
                   aws_tgs, aws_rules, target_groups, clean, pristine, env, threads,
                   interval, shutdown_requested, passes, probe>>

\* the sleep loop without its look at the flag
sleep_deaf ==
    /\ phase = "sleeping"
    /\ phase' = IF slept < interval THEN "asleep" ELSE "ready"
    /\ UNCHANGED <<wiring, file, compose_data, containers, port_allocations,
                   aws_tgs, aws_rules, target_groups, service_results,
                   alb_results, log, fault, clean, pristine, aside>>

\* for _ in range(interval): if shutdown_requested: break
sleep_check ==
    /\ phase = "sleeping"
    /\ phase' = IF slept < interval /\ ~shutdown_requested THEN "asleep" ELSE "ready"
    /\ UNCHANGED <<wiring, file, compose_data, containers, port_allocations,
                   aws_tgs, aws_rules, target_groups, service_results,
                   alb_results, log, fault, clean, pristine, aside>>

\* time.sleep(1) returns
sleep_1 ==
    /\ phase = "asleep"
    /\ phase' = "sleeping"
    /\ slept' = slept + 1
    /\ UNCHANGED <<wiring, file, compose_data, containers, port_allocations,
                   aws_tgs, aws_rules, target_groups, service_results,
                   alb_results, log, fault, clean, pristine, env, threads, interval,
                   shutdown_requested, passes, exit_code, probe>>

\* the steps of the process itself, but for the pass
Proceed ==
    \/ main
    \/ loop_returns
    \/ after_pass
    \/ sleep_check
    \/ sleep_1

\* the loop is at its top with the flag clear: nothing but a pass, or a
\* signal, comes next
PassDue == phase = "ready" /\ ~shutdown_requested

NextMain ==
    \/ main
    \/ loop_returns
    \/ loop_pass
    \/ after_pass
    \/ sleep_check
    \/ sleep_1
    \/ signal_handler

\* the process is scheduled: a step it can take, it takes, and a pass that
\* is due is run (PassDue is ENABLED <<loop_pass>>_vars, so the last
\* conjunct is WF_vars(loop_pass))
SpecMain ==
    InitMain /\ [][NextMain]_vars /\ WF_vars(Proceed) /\ []<>(~PassDue)

(***************************************************************************)
(* The process with a pass in two steps, so that a signal can arrive while *)
(* the pass runs: load_config and sync_services ("converging" once they    *)
(* are done), then sync_alb.                                               *)
(***************************************************************************)
\* config_manager.load_config(); compose_manager.sync_services()
containers_half == sync_services(load_compose_data(World), env)

\* alb_manager.sync_alb()
routing_half == sync_alb(World, env)

\* a variant of the step below: the loop does not look at the flag
pass_begins_deaf ==
    /\ phase = "ready"
    /\ phase' = "converging"
    /\ passes' = IF passes < MaxPasses THEN passes + 1 ELSE MaxPasses
    /\ Install(containers_half.w)
    /\ service_results' = containers_half.val
    /\ alb_results' = NoAlbResults
    /\ Monitors(env, containers_half.w, FALSE)
    /\ UNCHANGED <<wiring, file, env, threads, interval, shutdown_requested, slept,
                   exit_code, probe>>

\* while not shutdown_requested: the pass begins
pass_begins ==
    /\ phase = "ready"
    /\ ~shutdown_requested
    /\ phase' = "converging"
    /\ passes' = IF passes < MaxPasses THEN passes + 1 ELSE MaxPasses
    /\ Install(containers_half.w)
    /\ service_results' = containers_half.val
    /\ alb_results' = NoAlbResults
    /\ Monitors(env, containers_half.w, FALSE)
    /\ UNCHANGED <<wiring, file, env, threads, interval, shutdown_requested, slept,
                   exit_code, probe>>

\* the rest of the pass; probe tells whether the flag was set by then
pass_completes ==
    /\ phase = "converging"
    /\ phase' = "reporting"
    /\ Install(routing_half.w)
    /\ alb_results' = routing_half.val
    /\ fault' = IF fault # NoFault THEN fault ELSE FaultHit(env, routing_half.w.log)
    /\ probe' = [op |-> "pass", server_id |-> GENERAL,
                 flagged |-> shutdown_requested]
    /\ UNCHANGED <<wiring, file, service_results, clean, pristine, process>>

\* a pass is under way
Converging == phase = "converging"

NextShutdown ==
    \/ main
    \/ loop_returns
    \/ pass_begins
    \/ pass_completes
    \/ after_pass
    \/ sleep_check
    \/ sleep_1
    \/ signal_handler

\* the process is scheduled: a step it can take, it takes; a pass that is
\* due begins and a pass under way is completed (PassDue and Converging
\* are ENABLED <<pass_begins>>_vars and ENABLED <<pass_completes>>_vars)
SpecShutdown ==
    /\ InitMain /\ [][NextShutdown]_vars /\ WF_vars(Proceed)
    /\ []<>(~PassDue) /\ []<>(~Converging)

(***************************************************************************)
(* Properties.                                                             *)
(***************************************************************************)
\* a handler has run and holds its summaries
Reporting == phase = "reporting"
\* the target groups with the derived name of a service, and the rules
\* with its path pattern
TgsOf(id) == {t \in aws_tgs : t.name = _get_target_group_name(id)}
RulesOf(id) == {r \in aws_rules : r.path = _get_path_pattern(id)}
\* the services the desired state in memory lists
Listed == {i \in Ids : compose_data[i] # "absent"}
\* positions of the calls op in the log
At(op) == {i \in 1..Len(log) : log[i].op = op}
\* the smallest positive integer not in S
Smallest(S) == Min((1..(Cardinality(S) + 1)) \ S)

\* C1: the second of two passes in succession over an unchanged desired
\* state, with no remote failure, reports empty created, updated and
\* stopped/deleted lists.
C1_SecondPassQuiet ==
    (Reporting /\ clean = 2) =>
        /\ service_results.created = <<>>
        /\ service_results.updated = <<>>
        /\ service_results.stopped = <<>>
        /\ alb_results.created = <<>>
        /\ alb_results.updated = <<>>
        /\ alb_results.deleted = <<>>

\* C2: from an empty start with {a: enabled, b: disabled} and no failure,
\* the first pass of the loop reports created = [a] and leaves a with
\* exactly one target group and one rule and b with none; the second pass
\* reports created = [].
ScenarioFile == [i \in Ids |-> IF i = IdA THEN "enabled" ELSE "disabled"]
C2_Scenario ==
    (Reporting /\ pristine /\ file = ScenarioFile) =>
        /\ clean = 1 =>
              /\ service_results.created = <<IdA>>
              /\ Cardinality(TgsOf(IdA)) = 1
              /\ Cardinality(RulesOf(IdA)) = 1
              /\ TgsOf(IdB) = {}
              /\ RulesOf(IdB) = {}
        /\ clean = 2 =>
              /\ service_results.created = <<>>
              /\ alb_results.created = <<>>

\* C3: whenever the enumeration of the rules succeeds, the priority
\* create_listener_rule asks for is the smallest positive integer that no
\* rule of the listener holds (1 when there is none, 3 when 1, 2 and 4 are
\* held), and the priorities on the listener are pairwise distinct.
C3_SmallestFreePriority ==
    /\ \A i \in At("create_rule") :
          (i > 1 /\ log[i - 1].op = "describe_rules_priority" /\ log[i - 1].ok)
             => log[i].prio = Smallest(log[i].held)
    /\ \A r, q \in aws_rules : r.prio = q.prio => r = q
\* a rule was created at priority 3 while 1, 2 and 4 were held
C3_Witness ==
    \E i \in At("create_rule") :
       /\ i > 1 /\ log[i - 1].op = "describe_rules_priority" /\ log[i - 1].ok
       /\ log[i].held = {1, 2, 4} /\ log[i].prio = 3 /\ log[i].ok
       /\ \E r \in aws_rules : r.prio = 3 /\ r.path = _get_path_pattern(log[i].id)

\* C4: create_listener_rule never asks for a priority that a rule of the
\* listener already holds, also after the enumeration of the rules failed.
C4_NeverRequestsHeldPriority ==
    \A i \in At("create_rule") : log[i].prio \notin log[i].held

\* C5: for every enabled service of the desired set there is at most one
\* target group with its derived name and at most one rule with its path
\* pattern, after any sequence of passes and console actions.
C5_AtMostOnePerService ==
    \A i \in Ids :
       compose_data[i] = "enabled" =>
          Cardinality(TgsOf(i)) <= 1 /\ Cardinality(RulesOf(i)) <= 1
\* a synchronisation converged an enabled service whose target group
\* existed already: the group was found, not created again
C5_Witness ==
    /\ Reporting
    /\ \E i \in Ids :
          /\ compose_data[i] = "enabled"
          /\ Has(alb_results.created, i)
          /\ \E k \in At("describe_target_groups") : log[k].id = i /\ log[k].ok
          /\ \A k \in At("create_target_group") : log[k].id # i
          /\ Cardinality(TgsOf(i)) = 1
          /\ Cardinality(RulesOf(i)) = 1

\* C6: a sweep of sync_alb that runs to its end without a remote failure
\* leaves no managed target group whose service tag names a service absent
\* from the desired set, nor a rule of such a service, and the rule of a
\* service is deleted before its target group is.
Orphans == {log[k].id : k \in At("orphan")}
C6_OrphansSwept ==
    /\ (Reporting /\ fault = NoFault /\ At("sweep_done") # {}) =>
          /\ \A t \in aws_tgs : t.managed => compose_data[t.service] # "absent"
          /\ \A i \in Orphans : TgsOf(i) = {} /\ RulesOf(i) = {}
    /\ \A j \in At("delete_target_group") : \A k \in At("delete_rule") :
          (log[j].id = log[k].id /\ log[j].ok /\ log[k].ok) => k < j
\* the sweep met an orphan with its rule and deleted the rule, then the
\* target group
C6_Witness ==
    /\ Reporting /\ fault = NoFault /\ At("sweep_done") # {}
    /\ \E o \in At("orphan") :
          /\ compose_data[log[o].id] = "absent"
          /\ \E k \in At("delete_rule") : \E j \in At("delete_target_group") :
                /\ o < k /\ k < j
                /\ log[k].id = log[o].id /\ log[j].id = log[o].id
                /\ log[k].ok /\ log[j].ok
          /\ TgsOf(log[o].id) = {}

\* C7: a pass without a remote failure that finds a service disabled which
\* was enabled and converged (container running, target group and rule
\* present) stops its container, deletes its rule and its target group,
\* and reports no error.
C7_Step ==
    \A i \in Ids :
       (/\ phase = "ready" /\ phase' = "reporting"
        /\ file[i] = "enabled" /\ file'[i] = "disabled"
        /\ containers[i].st = "running"
        /\ TgsOf(i) # {} /\ RulesOf(i) # {}
        /\ fault' = NoFault)
       => /\ containers'[i].st # "running"
          /\ {t \in aws_tgs' : t.name = _get_target_group_name(i)} = {}
          /\ {r \in aws_rules' : r.path = _get_path_pattern(i)} = {}
          /\ service_results'.errors = <<>>
          /\ alb_results'.errors = <<>>
C7_DisabledTornDown == [][C7_Step]_vars

\* C8: an unexpected error raised while sync_alb processes one service is
\* recorded against that service, every service of the desired set is
\* still processed, and the orphan sweep is still performed.
C8_ErrorIsolated ==
    (Reporting /\ At("AttributeError") # {}) =>
        /\ \A k \in At("AttributeError") : Has(alb_results.errors, log[k].id)
        /\ \A i \in Listed : \E k \in At("alb_service") : log[k].id = i
        /\ At("describe_all_target_groups") # {}

\* C9: a remote call of create_target_group, register_target,
\* create_listener_rule or create_container that fails on fewer than three
\* attempts in a row is made again, and the operation succeeds.
C9_TransientRetried ==
    (Reporting /\ fault.k \in 1..(stop_after_attempt - 1)) =>
        /\ fault.site = "containers.run" => containers[fault.id].st = "running"
        /\ fault.site = "create_target_group" => TgsOf(fault.id) # {}
        /\ fault.site = "register_targets" =>
              \E t \in TgsOf(fault.id) : t.targets # {}
        /\ fault.site = "create_rule" => RulesOf(fault.id) # {}

\* C10: when the start, stop or restart of a service, or the deletion of
\* its rule or target group, fails in a pass, the errors of the pass name
\* that service.
C10_FailureReported ==
    (/\ Reporting
     /\ fault.site \in {"compose_up", "compose_stop", "compose_restart",
                        "delete_rule", "delete_target_group"}) =>
        \/ Has(service_results.errors, fault.id)
        \/ Has(alb_results.errors, fault.id)

\* C11: a pass whose reload of the desired-state file fails keeps the
\* desired state loaded before, and stops or deletes nothing of a service
\* that state enables.
C11_Step ==
    (/\ phase = "ready" /\ phase' = "reporting"
     /\ file' = Garbled /\ fault' = NoFault)
    => /\ compose_data' = compose_data
       /\ \A i \in Ids :
             compose_data[i] = "enabled" =>
                /\ containers[i].st = "running" => containers'[i].st = "running"
                /\ TgsOf(i) \subseteq aws_tgs'
                /\ RulesOf(i) \subseteq aws_rules'
C11_StaleReload == [][C11_Step]_vars

\* C17: the pass after a service with a running container was removed
\* from the desired-state file stops its container and deletes its rule
\* and its target group.
C17_Step ==
    \A i \in Ids :
       (/\ phase = "ready" /\ phase' = "reporting"
        /\ file[i] \in {"enabled", "disabled"} /\ file'[i] = "absent"
        /\ containers[i].st = "running"
        /\ fault' = NoFault)
       => /\ containers'[i].st # "running"
          /\ {t \in aws_tgs' : t.name = _get_target_group_name(i)} = {}
          /\ {r \in aws_rules' : r.path = _get_path_pattern(i)} = {}
C17_RemovedTornDown == [][C17_Step]_vars

\* C19: stop_container on an absent container succeeds and changes nothing
\* in the runtime; whenever it succeeds, no container of the service is
\* left and the service has no entry in the port allocations.
Stopping(i) ==
    /\ phase = "ready" /\ phase' = "reporting"
    /\ \E k \in 1..Len(log') : log'[k].op = "stop_container" /\ log'[k].id = i
Stopped(i) ==
    \E k \in 1..Len(log') :
       log'[k].op = "stop_container" /\ log'[k].id = i /\ log'[k].ok
C19_Step ==
    \A i \in Ids :
       Stopping(i) =>
          /\ containers[i] = NoContainer => (Stopped(i) /\ containers' = containers)
          /\ Stopped(i) => (containers'[i] = NoContainer /\ port_allocations'[i] = 0)
C19_StopReleases == [][C19_Step]_vars

\* C20: get_container_info reports a container as absent only when the
\* runtime holds no container of the service.
C20_AbsentOnlyIfNone ==
    \A k \in At("get_container_info") :
       ~log[k].ok => containers[log[k].id] = NoContainer

\* C18: the summaries of a pass hold the keys created, updated, stopped
\* (or deleted) and errors, and a remote call that fails outside the chain
\* of any service is reported as an entry of errors.
C18_SyncTotal ==
    (Reporting /\ At("sync_alb") # {}) =>
        /\ DOMAIN service_results = {"created", "updated", "stopped", "errors"}
        /\ DOMAIN alb_results = {"created", "updated", "deleted", "errors"}
        /\ fault.site \in {"compose_ps_all", "containers.list"} =>
              service_results.errors # <<>>
        /\ fault.site \in SweepSites => alb_results.errors # <<>>

\* C16: whatever the id and however often and whenever the name is derived,
\* every derived name is the same as the first, is at most NameCap (32)
\* characters long, and holds nothing but alphanumeric characters and dashes
C16_NameDerivation ==
    \A n \in 1..Len(probe.names) :
       /\ probe.names[n] = probe.names[1]
       /\ Len(probe.names[n]) <= NameCap
       /\ \A i \in 1..Len(probe.names[n]) :
             probe.names[n][i] \in AlnumChars \cup {"-"}

\* the id of the scenario, derived twice on a listener that holds foreign
\* rules, cut to "tg-mcp-very-long-service-name-th"
C16_Witness ==
    /\ probe.server_id = ScenarioId
    /\ Len(probe.names) = MaxCalls
    /\ aws_rules # {}
    /\ probe.names[MaxCalls] = <<"t", "g", "-", "m", "c", "p", "-">> \o Take(ScenarioId, NameCap - 7)
    /\ Len(probe.names[MaxCalls]) = NameCap

\* the loop was called and has returned
Returned == phase = "exited" /\ exit_code = 0

\* a pass starts
PassStarts == phase = "ready" /\ phase' = "reporting"

\* C13 (as claimed): called with interval <= 0 the loop runs exactly one
\* pass and returns, and never sleeps
C13_OneShot ==
    interval <= 0 =>
       /\ phase \notin {"sleeping", "asleep"}
       /\ passes <= 1
       /\ Returned => passes = 1

C13_State ==
    interval <= 0 =>
       /\ phase \notin {"sleeping", "asleep"}
       /\ passes <= 1
       /\ Returned => passes = 1 \/ (passes = 0 /\ shutdown_requested)

C13_Step ==
    /\ PassStarts => ~shutdown_requested
    /\ PassStarts /\ passes > 0 => interval > 0 /\ slept = interval
    /\ phase = "ready" /\ phase' = "exited" => shutdown_requested
    /\ phase = "reporting" /\ phase' = "exited" => interval <= 0

\* C13 (amended): called with interval <= 0 the loop runs exactly one pass
\* and returns without sleeping, unless shutdown was requested before the
\* loop was entered: then it returns without a pass.  With a positive
\* interval every pass after the first starts after `interval` one-second
\* sleeps, the loop returns only once shutdown is requested, and passes go
\* on for as long as it is not.
C13_OneShotUnlessShutdown ==
    /\ []C13_State
    /\ [][C13_Step]_vars
    /\ (phase = "ready" /\ interval <= 0) ~> (phase = "exited")
    /\ (interval > 0 /\ env.site # "compose") =>
          ([]<>(phase = "reporting") \/ <>shutdown_requested)

\* a one-shot run nobody interrupted has returned after its one pass
C13_Witness ==
    /\ interval = 0
    /\ Returned
    /\ passes = 1
    /\ slept = 0
    /\ ~shutdown_requested

C14_Step ==
    shutdown_requested =>
       /\ ~(phase = "ready" /\ phase' = "reporting")
       /\ ~(phase = "sleeping" /\ phase' = "asleep")

\* C14: once the signal handler has set the flag the loop returns; with the
\* flag set no pass is started and no one-second sleep is begun, so a loop
\* caught sleeping finishes at most the sleep it is in
C14_ResponsiveShutdown ==
    /\ [][C14_Step]_vars
    /\ shutdown_requested ~> (phase = "exited")

\* the flag was set during the sleep after the first pass: the loop has
\* returned with the interval not slept out and no second pass
C14_Witness ==
    /\ Returned
    /\ shutdown_requested
    /\ interval = MaxInterval
    /\ slept = 1
    /\ passes = 1

\* what the claim counts as fatal at startup: the runtime or the load
\* balancer out of reach, listener_arn or vpc_id missing, a file that does
\* not parse
FatalAtStartup == env # Sound \/ file = Garbled

\* C15: with something fatal at startup no pass runs and the process exits
\* with code 1; otherwise it exits with code 0, after a shutdown or after
\* the pass of a one-shot run
C15_FatalStartup ==
    /\ FatalAtStartup => passes = 0 /\ (phase = "exited" => exit_code = 1)
    /\ ~FatalAtStartup /\ phase = "exited" =>
          /\ exit_code = 0
          /\ shutdown_requested \/ (interval <= 0 /\ passes = 1)

\* a step that changes the desired state, a pass in which a remote call
\* failed, or drift
Disturbed ==
    \/ file' # file
    \/ fault' # NoFault
    \/ phase = "ready" /\ phase' = "ready"

\* every enabled service whose container is running has a target group with
\* a registered target and a rule that forwards to it
Healed ==
    \A i \in Ids :
       (file[i] = "enabled" /\ containers[i].st = "running") =>
          \E t \in TgsOf(i) :
             /\ t.targets # {}
             /\ \E r \in RulesOf(i) : r.tg = t.arn

\* C12: if from some point on the desired state is unchanged, no remote call
\* fails and nothing drifts, the passes reach and keep a state in which
\* every enabled service with a running container has a target group, a
\* registered target and a rule forwarding to that target group
C12_SelfHealing == []<><<Disturbed>>_vars \/ <>[]Healed

\* the sixteen spellings of "true"
TrueSpellings ==
    {t \in [1..4 -> {"t", "T", "r", "R", "u", "U", "e", "E"}] :
        /\ t[1] \in {"t", "T"} /\ t[2] \in {"r", "R"}
        /\ t[3] \in {"u", "U"} /\ t[4] \in {"e", "E"}}

\* the label mcp.disabled the service was given equals "true", whatever the
\* case (a boolean true is written True)
MeantDisabled(i) ==
    /\ mcp_disabled \in DOMAIN probe.meant[i]
    /\ \/ probe.meant[i][mcp_disabled].kind = "str"
          /\ probe.meant[i][mcp_disabled].s \in TrueSpellings
       \/ probe.meant[i][mcp_disabled].kind = "bool"
          /\ probe.meant[i][mcp_disabled].b

\* C21: get_mcp_servers returns one entry for every service that has an
\* entry in the compose data and none for any other; its disabled flag is
\* true exactly when the service's label mcp.disabled equals "true" up to
\* case, in a mapping or in a list of key=value strings, and false when
\* the label is missing; get_setting returns the default it was called
\* with when the section or the key is unknown, and the setting otherwise
C21_DesiredSet ==
    /\ probe.done =>
          /\ DOMAIN probe.servers = {i \in Ids : probe.services[i] # NoEntry}
          /\ \A i \in DOMAIN probe.servers :
                probe.servers[i].disabled = MeantDisabled(i)
    /\ probe.asked =>
          probe.value =
             IF probe.section \in Sections /\ probe.key \in DOMAIN probe.settings[probe.section]
             THEN probe.settings[probe.section][probe.key]
             ELSE probe.default

\* a given as a list that says mcp.disabled=TRUE after a string without
\* "=", b without labels: a is disabled, b is not; and a setting asked for
\* in a section that does not exist
C21_Witness ==
    /\ probe.done
    /\ probe.services[IdA].form = "list"
    /\ Len(probe.services[IdA].items) = 3
    /\ probe.services[IdA].items[1] = Junk
    /\ \E i \in 2..3 : probe.services[IdA].items[i] = Item(mcp_disabled, StrVal(<<"T", "R", "U", "E">>))
    /\ probe.services[IdB] = NoLabels
    /\ probe.servers[IdA].disabled
    /\ ~probe.servers[IdB].disabled
    /\ probe.asked
    /\ probe.section = "nonexistent"
    /\ probe.value = probe.default

\* create_listener_rule was called on its own and has returned
RuleCalled ==
    /\ phase = "reporting"
    /\ probe # NoProbe
    /\ probe.op = "create_listener_rule"

\* the rules with the service's path pattern the call found
Found == {r \in probe.rules : r.path = _get_path_pattern(probe.server_id)}

\* the target group the call holds for the service
Current == probe.cache[probe.server_id]

\* the call asked for a rule to be created or modified
RuleWrites == At("create_rule") \cup At("modify_rule")

Place(r) == [arn |-> r.arn, prio |-> r.prio, path |-> r.path]

\* C23: when a rule with the service's path pattern exists and forwards to
\* another target group, create_listener_rule creates no rule and allocates
\* no priority, every rule keeps its ARN, priority and path, and without a
\* failure that one rule forwards to the service's target group afterwards,
\* the others as before; a rule is created only when no rule has the path
C23_UpdateInPlace ==
    RuleCalled =>
        /\ (Current # 0 /\ Found # {} /\ \A r \in Found : r.tg # Current) =>
              /\ At("create_rule") = {}
              /\ At("describe_rules_priority") = {}
              /\ {Place(r) : r \in aws_rules} = {Place(r) : r \in probe.rules}
              /\ Cardinality(aws_rules) = Cardinality(probe.rules)
              /\ \A r \in probe.rules \ Found : r \in aws_rules
              /\ fault = NoFault =>
                    /\ \A r \in Found :
                          [r EXCEPT !.tg = Current] \in aws_rules
                    /\ probe.val \in {r.arn : r \in Found}
              /\ fault # NoFault => aws_rules = probe.rules
        /\ At("create_rule") # {} => Found = {}

\* a's rule was pointed at b's target group: the call for a points it
\* back, and the listener holds the same two rules at the same priorities
C23_Witness ==
    /\ RuleCalled
    /\ probe.server_id = IdA
    /\ Current # 0
    /\ \E r \in Found :
          /\ r.tg # Current
          /\ r \notin aws_rules
          /\ [r EXCEPT !.tg = Current] \in aws_rules
          /\ probe.val = r.arn
    /\ At("modify_rule") # {}
    /\ Cardinality(probe.rules) = 2
    /\ Cardinality(aws_rules) = 2
    /\ fault = NoFault

\* C24: a target group found by its derived name is reused, so no service
\* has two, and every target group created for a service carries the
\* ManagedBy tag and the tag holding its server_id, also when a later step
\* of the call that created it failed
C24_EnsureTargetGroup ==
    \A id \in Ids :
        /\ Cardinality(TgsOf(id)) <= 1
        /\ \A t \in TgsOf(id) : t.managed /\ t.service = id

\* something accepts a TCP connection on the port
Listening(p) == \E i \in Ids : containers[i].st = "running" /\ containers[i].port = p
\* the ports of the cache
Cached == {port_allocations[i] : i \in Ids} \ {0}
\* the ports of the range that are not in the cache and refuse a connection
Free == {p \in Ports : p \notin Cached /\ ~Listening(p)}

\* C25: _find_available_port returns the smallest port of the range that is
\* not a value of the cache and refuses a TCP connection, it raises exactly
\* when the range holds no such port, and after any sequence of
\* create_container and stop_container calls no two server_ids have the
\* same port in the cache
C25_PortAllocation ==
    /\ \A i, j \in Ids :
          (i # j /\ port_allocations[i] # 0)
              => port_allocations[i] # port_allocations[j]
    /\ (phase = "reporting" /\ probe # NoProbe
           /\ probe.op = "_find_available_port") =>
          /\ probe.raised <=> Free = {}
          /\ ~probe.raised => probe.val = Min(Free)

\* a's port is in the cache, and the scan run after it passes over it
C25_Witness ==
    /\ phase = "reporting"
    /\ probe # NoProbe
    /\ probe.op = "_find_available_port"
    /\ port_allocations[IdA] = port_range_start
    /\ port_allocations[IdB] = 0
    /\ ~probe.raised
    /\ probe.val = port_range_start + 1

\* a pass has run and its steps are on record
PassTraced ==
    /\ phase = "reporting"
    /\ probe # NoProbe
    /\ probe.op = "reconciliation_loop"

\* the steps of container convergence, of routing convergence and of the
\* orphan sweep of the load balancer
ContainerSteps == RuntimeSites \cup {"service"}
RoutingSteps == SetupSites \cup TeardownSites
                    \cup {"sync_alb", "alb_service", "AttributeError"}
SweepSteps == SweepSites \cup {"orphan", "sweep_done"}

\* the services the pass converged containers for, in its order
Converged ==
    SelectSeq([i \in 1..Len(probe.trace) |->
                   IF probe.trace[i].op = "service" THEN probe.trace[i].id
                   ELSE GENERAL],
              LAMBDA id : id # GENERAL)

\* C26: a pass converges the containers of the services of the file as it
\* is on disk when the pass begins, no step of container convergence
\* follows a step of routing convergence or of the sweep, and a step of the
\* sweep follows the routing convergence of every desired service
C26_PhaseOrder ==
    PassTraced =>
        /\ Converged = (IF file = Garbled THEN <<>> ELSE get_mcp_servers(file))
        /\ \A i, j \in 1..Len(probe.trace) :
              (i < j /\ probe.trace[i].op \in RoutingSteps \cup SweepSteps)
                  => probe.trace[j].op \notin ContainerSteps
        /\ \A k \in 1..Len(probe.trace) :
              probe.trace[k].op \in SweepSteps =>
                  \A id \in Listed :
                      \E i \in 1..(k - 1) :
                          /\ probe.trace[i].op = "alb_service"
                          /\ probe.trace[i].id = id

\* two disabled services: both are converged, then both routed, then swept
C26_Witness ==
    /\ PassTraced
    /\ Converged = Order
    /\ Listed = Ids
    /\ \E i, j, k \in 1..Len(probe.trace) :
          /\ i < j /\ j < k
          /\ probe.trace[i].op \in {"compose_ps", "compose_stop"}
          /\ probe.trace[j].op = "alb_service"
          /\ probe.trace[k].op = "sweep_done"

\* the remote calls that set routing up, and all that write to the load
\* balancer
SetupWrites == {"create_target_group", "add_tags", "register_targets",
                "create_rule", "modify_rule"}
LbWrites == SetupWrites \cup {"delete_rule", "delete_target_group"}

\* a pass over the services has run: sync_alb was entered
Synced == phase = "reporting" /\ At("sync_alb") # {}

\* sync_alb starts and stops no container: what stands after the pass
\* stood while it converged the routing
RunningWithPort(id) ==
    containers[id].st = "running" /\ port_allocations[id] # 0

\* C27 as stated: a pass makes a set-up write for a service only if its
\* container is running with a known port, and no load-balancer write at
\* all for a service whose container is absent or not running
C27_NoWriteUnlessRunning ==
    Synced =>
        \A k \in 1..Len(log) :
            /\ log[k].op \in SetupWrites => RunningWithPort(log[k].id)
            /\ (log[k].op \in LbWrites /\ log[k].id \in Ids)
                  => containers[log[k].id].st = "running"

\* C27, amended: a pass makes a set-up write for a service only if its
\* container is running with a known port, and no load-balancer write at
\* all for an enabled service whose container is absent or not running
C27_RoutedOnlyIfRunning ==
    Synced =>
        \A k \in 1..Len(log) :
            /\ log[k].op \in SetupWrites => RunningWithPort(log[k].id)
            /\ (log[k].op \in LbWrites /\ log[k].id \in Ids
                   /\ compose_data[log[k].id] = "enabled")
                  => containers[log[k].id].st = "running"

\* a is enabled and its container runs on a known port: the pass sets its
\* routing up; b is enabled and its container is gone: nothing is written
\* for b
C27_Witness ==
    /\ Synced
    /\ compose_data = [i \in Ids |-> "enabled"]
    /\ RunningWithPort(IdA)
    /\ containers[IdB].st # "running"
    /\ \E k \in At("create_rule") : log[k].id = IdA /\ log[k].ok
    /\ \A k \in 1..Len(log) : log[k].op \in LbWrites => log[k].id = IdA

\* the remote calls of the set-up and teardown chains, and those whose
\* failure fails a step (a failed lookup of the priorities does not: the
\* rule is then created at the fallback priority)
ChainCalls == SetupSites \cup TeardownSites
StepCalls == ChainCalls \ {"describe_rules_priority"}

\* C28: once a remote call of a service's set-up or teardown chain has
\* failed, the pass makes no later call of that service's chain, and it
\* still enters the chain of every other service of the desired state
C28_FailedStepAborts ==
    Synced =>
        /\ \A k, l \in 1..Len(log) :
              (/\ k < l
               /\ log[k].op \in StepCalls
               /\ ~log[k].ok
               /\ log[k].id \in Ids
               /\ log[l].id = log[k].id)
                  => log[l].op \notin ChainCalls
        /\ (fault # NoFault /\ fault.id \in Ids) =>
              \A id \in Listed \ {fault.id} :
                  \E k \in At("alb_service") : log[k].id = id

\* the services a pass entered the routing convergence of
Routed == {probe.trace[i].id : i \in {j \in 1..Len(probe.trace) :
                                         probe.trace[j].op = "alb_service"}}

\* C29: the desired state a pass holds when it ends is the one it loaded
\* when it began, and the services whose containers and whose routing it
\* converged are services of that state, even if the file changed while
\* the pass ran
C29_DesiredFixed ==
    PassTraced =>
        /\ compose_data = probe.loaded
        /\ \A i \in 1..Len(Converged) : probe.loaded[Converged[i]] # "absent"
        /\ \A id \in Routed : probe.loaded[id] # "absent"

C30_Step ==
    /\ (phase # "converging" /\ phase' = "converging") =>
          phase = "ready" /\ ~shutdown_requested
    /\ (phase = "converging" /\ phase' = "converging") =>
          UNCHANGED <<containers, port_allocations, compose_data, aws_tgs,
                      aws_rules, service_results>>
    /\ (phase = "converging" /\ phase' # "converging") =>
          /\ phase' = "reporting"
          /\ \E k \in 1..Len(log') : log'[k].op = "sync_alb"
          /\ UNCHANGED <<containers, port_allocations, service_results>>

\* C30: a pass begins only at the top of the loop with the shutdown flag
\* clear, the first pass and the pass of a one-shot run included; a pass
\* under way when the flag is set goes on to sync_alb and ends with its
\* summaries, and nothing its container convergence did is undone
C30_ShutdownSafety ==
    /\ [][C30_Step]_vars
    /\ Converging ~> Reporting

\* the signal came while the first pass ran: the pass went on to tear down
\* the routing of a disabled service and to finish its sweep
C30_Witness ==
    /\ phase = "reporting"
    /\ probe # NoProbe
    /\ probe.op = "pass"
    /\ probe.flagged
    /\ shutdown_requested
    /\ passes = 1
    /\ alb_results.deleted # <<>>
    /\ At("sweep_done") # {}

\* a pass has ended with errors in a summary or with a failed remote call
FailedPass ==
    /\ phase = "reporting"
    /\ \/ service_results.errors # <<>>
       \/ alb_results.errors # <<>>
       \/ fault # NoFault

C31_Step ==
    (FailedPass /\ interval > 0) =>
        /\ phase' \in {"reporting", "sleeping"}
        /\ exit_code' = NoExit

\* C31: a pass that failed does not end the loop: with a positive interval
\* the loop goes from it into its sleep, not to its exit, and unless
\* shutdown is requested it comes back to the top of the loop, where the
\* next pass starts, after `interval` one-second sleeps
C31_LoopSurvives ==
    /\ [][C31_Step]_vars
    /\ [][(phase = "sleeping" /\ phase' = "ready") =>
             (slept = interval \/ shutdown_requested)]_vars
    /\ (FailedPass /\ interval > 0) ~>
          (shutdown_requested \/ (phase = "reporting" /\ slept = interval))

\* the first pass failed, the interval was slept out and the second pass
\* has run
C31_Witness ==
    /\ phase = "reporting"
    /\ passes = 2
    /\ interval = MaxInterval
    /\ slept = interval
    /\ alb_results.errors # <<>>
    /\ ~shutdown_requested


\* the enumerations of the rules for a priority that failed
FailedEnumerations == {i \in At("describe_rules_priority") : ~log[i].ok}

C33_Step ==
    (phase = "ready" /\ phase' = "reporting") =>
       \A i \in Ids :
          compose_data'[i] = "disabled" =>
             /\ containers'[i] \in {containers[i], NoContainer}
             /\ port_allocations'[i] \in {port_allocations[i], 0}
             /\ {t \in aws_tgs' : t.name = _get_target_group_name(i)}
                   \subseteq TgsOf(i)
             /\ {r \in aws_rules' : r.path = _get_path_pattern(i)}
                   \subseteq RulesOf(i)
             /\ \A k \in 1..Len(log') :
                   log'[k].id = i => log'[k].op \notin SetupWrites

\* C33: for a disabled service neither a pass nor a create/start action of
\* the console creates or starts a container, allocates a port or creates a
\* target group or rule; create_container on a disabled entry returns None
\* with no call made and the port allocations as they were.
C33_NothingForDisabled ==
    /\ [][C33_Step]_vars
    /\ [](phase = "ready" =>
            \A i \in Ids :
               compose_data[i] = "disabled" =>
                  \A f \in CreateFaults(i) :
                     create_container(World, f, i, FlatEntry(compose_data, i))
                        = Ret(World, 0))
\* a pass over a disabled service that an earlier run left with a target
\* group and a rule: after it none stands, and no container
C33_Witness ==
    /\ Synced
    /\ \E i \in Ids :
          /\ compose_data[i] = "disabled"
          /\ \E k \in At("delete_target_group") : log[k].id = i /\ log[k].ok
          /\ TgsOf(i) = {} /\ RulesOf(i) = {}
          /\ containers[i] = NoContainer /\ port_allocations[i] = 0

\* the services a summary lists under a key
Members(list) == {list[k] : k \in 1..Len(list)}

\* a pass over an enabled service that has a container
C34_Step ==
    (phase = "ready" /\ Synced') =>
       \A i \in Ids :
          (compose_data'[i] = "enabled" /\ containers[i].st # "none") =>
             /\ containers'[i].st # "none"
             /\ containers'[i].port = containers[i].port
             /\ port_allocations'[i] = port_allocations[i]
             /\ i \notin Members(service_results'.created)
             /\ containers[i].st = "running" =>
                   \/ i \in Members(service_results'.updated)
                   \/ fault'.site \in {"containers.get", "container.restart"}

UnderPrefix(path) == path \o <<"/", "*">>

\* C35: the rule created for a service has the path pattern of the
\* service's desired path prefix: the label mcp.path when the service
\* carries one, /mcp/<server_id> otherwise.
C35_RulePathIsDesiredPath ==
    phase = "reporting" =>
       \A k \in At("create_rule") :
          log[k].ok =>
             \E r \in aws_rules :
                /\ r.prio = log[k].prio
                /\ r.path = UnderPrefix(get_mcp_server_path(compose_data, log[k].id))

\* no thread is inside an operation
AllAtRest == \A t \in Threads : threads[t] = AtRest

\* C36: after the loop's thread and the console's have run create_container
\* for two different services, in any interleaving, the two services have
\* different host ports in the port allocations.
C36_NoPortCollision ==
    AllAtRest =>
       \A i, j \in Ids :
          (i # j /\ port_allocations[i] # 0 /\ port_allocations[j] # 0)
             => port_allocations[i] # port_allocations[j]

\* C37 (first half): in every interleaving of two set-ups the listener has
\* at most one rule per path pattern
OneRulePerPath == \A i \in Ids : Cardinality(RulesOf(i)) <= 1
\* C37 (second half): no two create_rule calls are issued with the same
\* priority
DistinctPrioritiesAsked ==
    \A k, m \in At("create_rule") : k # m => log[k].prio # log[m].prio

\* C37: when setup_alb_for_server runs in the loop's thread and in the
\* console's at once, for one service or for two, in every interleaving the
\* listener ends up with at most one rule per path pattern and no two
\* create_rule calls are issued with the same priority.
C37_NoDuplicateRouting == OneRulePerPath /\ DistinctPrioritiesAsked

\* the target groups and the rules a step deleted
TgsDeleted == {t \in aws_tgs : \A q \in aws_tgs' : q.arn # t.arn}
RulesDeleted == {r \in aws_rules : \A q \in aws_rules' : q.arn # r.arn}

\* a pass: what it deletes apart from the teardown of the disabled services
C38_Step ==
    (phase = "ready" /\ Synced') =>
       \A i \in Ids :
          compose_data'[i] # "disabled" =>
             /\ \A t \in TgsDeleted :
                   (t.name = _get_target_group_name(i) \/ t.service = i) =>
                      /\ compose_data'[i] = "absent"
                      /\ t.managed /\ t.service = i
             /\ \A r \in RulesDeleted :
                   r.path = _get_path_pattern(i) =>
                      /\ compose_data'[i] = "absent"
                      /\ \E t \in aws_tgs : t.managed /\ t.service = i

\* C38: the target group the sweep of sync_alb deletes for an orphaned
\* server_id is the one tagged with it, and the rule the one of its path;
\* the sweep deletes no target group or rule of a service of the desired
\* set and no target group without the ManagedBy tag.
C38_SweepOnlyOrphans ==
    /\ [][C38_Step]_vars
    /\ [][(phase = "ready" /\ Synced') => \A t \in TgsDeleted :
              (\A i \in Ids : t.name = _get_target_group_name(i)
                                 => compose_data'[i] # "disabled") => t.managed]_vars
\* a pass swept the tagged target group and the rule of a service that is
\* not in the file, and left an untagged one of the other service
C38_Witness ==
    /\ Synced
    /\ \E k \in At("orphan") :
          /\ compose_data[log[k].id] = "absent"
          /\ \E m \in At("delete_rule") : m > k /\ log[m].ok
          /\ \E m \in At("delete_target_group") : m > k /\ log[m].ok
          /\ TgsOf(log[k].id) = {} /\ RulesOf(log[k].id) = {}
    /\ \E t \in aws_tgs : ~t.managed

\* C39: after a pass the rule of each of two enabled services forwards to
\* a target group created for and tagged with that service: the look-up by
\* derived name makes no service use the target group of another.
C39_OwnTargetGroup ==
    Synced =>
       \A i \in DOMAIN compose_data :
          compose_data[i] = "enabled" =>
             \A r \in RulesOf(i) :
                \A t \in aws_tgs : r.tg = t.arn => t.service = i

\* C40: a service has an entry in ContainerManager.port_allocations only
\* if a container with its derived name exists, in every state that
\* create_container, stop_container and sync_containers calls lead to.
C40_PortCacheFollowsRuntime ==
    \A i \in DOMAIN port_allocations :
       port_allocations[i] # 0 => containers[i].st # "none"
=============================================================================
